---- MODULE Spec2Model ----
(***************************************************************************)
(* State-machine model of the MyChat WebSocket server (src/server.js).     *)
(*                                                                         *)
(* One action per event the server handles: a transport connect, a         *)
(* transport close, and one per inbound envelope type.  Node runs every    *)
(* handler to completion on one thread, so each handler is one atomic      *)
(* step.  Everything a handler passes to ws.send is collected, in order,   *)
(* in the variable outbox; req records the event that was handled, with    *)
(* the registry and the database as the handler found them.  The pages are *)
(* other processes: what the server and a page send each other waits in    *)
(* the socket between them, and each listener and each onmessage call of a *)
(* page is a step of its own, after which outbox is empty and req is the   *)
(* event "page".                                                           *)
(*                                                                         *)
(* Eight specifications share the handlers.  Spec is the server alone,     *)
(* taking any envelope a peer can send between two ordinary usernames.     *)
(* Accounts is the account and contact handlers alone, taking also the     *)
(* usernames "undefined", "__proto__" and "", and payloads in which a      *)
(* password or a code is missing.  Durable is the server alone with a      *)
(* file system whose writes may fail, and with restarts of the process.    *)
(* System is the server, started on a stored database, with the browser    *)
(* pages of src/unnamed/part_000 at the other end of its sockets: two      *)
(* users, each with a page in a browser of their own, sign up, log in, add *)
(* contacts, chat, type, go back and log out while the requests of both    *)
(* are on their way, and their sockets close and are made again. Alone is  *)
(* the server with the page of one browser, whose user types any name.     *)
(* Scenario runs the requests of the end-to-end scenario in their order.   *)
(* Session follows the page of one browser through logins, logouts, losses *)
(* of the transport at either end and reconnections, under fairness of the *)
(* event loops of the page and of the server. Presence is the server alone *)
(* with, for each connection, the contact lists it was last sent.          *)
(*                                                                         *)
(* Every JavaScript string (a username, a password, a code, a text, a      *)
(* chat key) is the tuple of the ordinals of its characters, so that the   *)
(* empty string, Array.prototype.sort and join are what they are in the    *)
(* code.  The ordinals keep the order of the characters: the blank has    *)
(* -4, "-" has -1, the digits have 1 to 9, "_" has 10 and the letters a to *)
(* z have 11 to 36.  The values undefined and null are tuples no string is *)
(* equal to.                                                               *)
(***************************************************************************)
EXTENDS Naturals, Integers, Sequences, FiniteSets, TLC

\* ------------------------------------------------------------ bounds ----
\* connections accepted during one run (each ws object is used once)
MaxConns == 2
\* messages created during one run (uuidv4 never repeats an id)
MaxMsgs == 1
\* alphabet of the generated codes: the characters 1..MaxDigit
MaxDigit == 2
\* clock readings new Date() can return
MaxTime == 1
\* browsers that load the page during one run, each with a localStorage of its own
MaxBrowsers == 2

\* ------------------------------------------------------------ values ----
\* JavaScript's undefined: what a payload field that is missing reads as, what find
\* returns without a hit, what a property that does not exist reads as
Undefined == <<-3>>
\* JavaScript's null
Null == <<-2>>

\* the string "null", which sort compares null as
NullName == <<24, 31, 22, 22>>

\* the blank, which trim takes off the ends of what is typed
Space == -4

\* the character "-" that getChatKey joins with: it sorts before every digit and letter
Dash == -1

\* the usernames "alice" and "bob"
Alice == <<11, 22, 19, 13, 15>>
Bob == <<12, 25, 12>>
\* the username "undefined": the property key that undefined is converted to
UndefinedName == <<31, 24, 14, 15, 16, 19, 24, 15, 14>>
\* the username "__proto__": like "constructor" and "toString" it names a member that
\* every plain object inherits from Object.prototype
ProtoName == <<10, 10, 26, 28, 25, 30, 25, 10, 10>>
\* the username "": a string that counts as false in a condition
EmptyName == <<>>

\* the usernames a request may carry
Usernames == {Alice, Bob, UndefinedName, ProtoName, EmptyName}
\* of these, the names of members of Object.prototype
InheritedNames == {ProtoName}

\* the passwords "pw1" and "pw2", and "bad", the password of no account
Pw1 == <<26, 33, 1>>
Pw2 == <<26, 33, 2>>
BadPassword == <<12, 11, 14>>
\* what a signup request may carry as password
Passwords == {Pw1}
\* what a login request may carry as password; Undefined is a payload without one
LoginPasswords == Passwords \cup {BadPassword, Undefined}

\* the text "hi"
Hi == <<18, 19>>
Texts == {<<>>, Hi}

Conns == 1..MaxConns
Browsers == 1..MaxBrowsers
Times == 1..MaxTime
MsgIds == 1..MaxMsgs

\* values Math.random().toString(36).substring(2, 8).toUpperCase() yields: a sample of
\* one-character ones.  No handler tests a code for truth, so the empty code that a
\* random number of 0 gives is looked up and compared like these
Codes == {<<d>> : d \in 1..MaxDigit}
\* the codes a request payload may carry: a code is unknown until a signup draws it,
\* and Undefined is a payload without the field
PayloadCodes == Codes \cup {Undefined}
\* what the contacts of an account can hold: a code, the undefined that addContact has
\* pushed, and the null that db.json gives back for it
ContactCodes == PayloadCodes \cup {Null}
\* the usernames of requests about ordinary accounts
PlainNames == {Alice, Bob}
\* the usernames of requests that try what the code does with a name: an ordinary
\* one, and one of each kind the code treats in a way of its own
OddNames == {Alice, UndefinedName, ProtoName, EmptyName}
\* the usernames of the requests whose contact lists are followed
ViewNames == {Alice, EmptyName}
\* what a login request of a peer that tries names may carry as password
OddPasswords == Passwords \cup {Undefined}

\* db.users[username] of a username that is no property of db.users
NoUser == [absent |-> TRUE]
\* Map.get of a code that is not in the registry
NoWs == 0

VARIABLES
    db,         \* the in-memory database {users, chats}
    disk,       \* the content of db.json, as JSON.parse reads it
    fs,         \* what the next writeFileSync on db.json will do
    clients,    \* the Map userCode -> ws, as the sequence of its entries in insertion order
    conn,       \* per ws object: "none" (not yet accepted), "open" or "closed"
    nextId,     \* number of the next uuid
    outbox,     \* what the last handler passed to ws.send, in order
    req,        \* the event the last handler handled
    page,       \* per ws object: the state of the browser page whose socket it is
    events,     \* per ws object: the messages it got as newMessage or messageSent, in order
    sock,       \* per ws object: the page's end of the socket and what is on its way in it
    storage,    \* per browser: the "chat-session" and "chat-app-token" items of its localStorage
    views,      \* per ws object and code: the last contactList sent to it for that code
    stage,      \* how many steps of the end-to-end scenario have been taken
    gestures    \* how many things the users of the pages have done

vars == <<db, disk, fs, clients, conn, nextId, outbox, req, page, events, sock, storage,
          views, stage, gestures>>

\* ------------------------------------------------- sequences, strings ----
Range(s) == {s[i] : i \in DOMAIN s}

RECURSIVE SeqFilter(_, _)
\* Array.prototype.filter, for a set of kept values
SeqFilter(s, keep) ==
    IF s = <<>> THEN <<>>
    ELSE IF Head(s) \in keep THEN <<Head(s)>> \o SeqFilter(Tail(s), keep)
         ELSE SeqFilter(Tail(s), keep)

RECURSIVE StrLess(_, _)
\* a < b for strings: comparison by code units, a proper prefix sorts first
StrLess(a, b) ==
    IF b = <<>> THEN FALSE
    ELSE IF a = <<>> THEN TRUE
    ELSE IF Head(a) < Head(b) THEN TRUE
    ELSE IF Head(b) < Head(a) THEN FALSE
    ELSE StrLess(Tail(a), Tail(b))

\* !x for x a string, undefined or null: undefined, null and the empty string count
\* as false
Falsy(x) == x \in {Undefined, Null, <<>>}

\* the property key a value is converted to in db.users[x]: String(undefined) is
\* "undefined", a string is its own key
ToKey(x) == IF x = Undefined THEN UndefinedName ELSE x

\* the string the default sort compares an element as: "null" for null
AsString(x) == IF x = Null THEN NullName ELSE x

\* [a, b].sort(): the default sort puts undefined last and swaps two other elements
\* only if, as strings, b < a
SortPair(a, b) ==
    IF a = Undefined THEN <<b, a>>
    ELSE IF b = Undefined THEN <<a, b>>
    ELSE IF StrLess(AsString(b), AsString(a)) THEN <<b, a>>
    ELSE <<a, b>>

\* what Array.prototype.join writes for an element: nothing for undefined and null
Joined(x) == IF x \in {Undefined, Null} THEN <<>> ELSE x

getChatKey(userCode1, userCode2) ==
    LET sorted == SortPair(userCode1, userCode2)
    IN  Joined(sorted[1]) \o <<Dash>> \o Joined(sorted[2])

\* ---------------------------------------------------------- database ----
\* { users: {}, chats: {} }
EmptyDb == [users |-> [u \in Usernames |-> NoUser], chats |-> <<>>]

\* Object.keys(db.users): the usernames that have an account
OwnKeys(d) == {u \in Usernames : d.users[u] # NoUser}

\* what the members of Object.prototype read as: one of them is an object or a
\* function without a password, a userCode or contacts
ObjectPrototype == [password |-> Undefined, userCode |-> Undefined, contacts |-> Undefined]

\* db.users[username]: the account of that key if there is one, else what the object
\* inherits under that key, else undefined
UserAt(d, username) ==
    [key \in Usernames |->
        IF d.users[key] # NoUser THEN d.users[key]
        ELSE IF key \in InheritedNames THEN ObjectPrototype
        ELSE NoUser][ToKey(username)]

\* Object.keys(db.users).find(u => db.users[u].userCode === code)
FindUsername(d, code) ==
    LET hits == {u \in OwnKeys(d) : d.users[u].userCode = code}
    IN  IF hits = {} THEN Undefined ELSE CHOOSE u \in hits : TRUE

\* db.chats[chatKey] || []
ChatOf(d, chatKey) == IF chatKey \in DOMAIN d.chats THEN d.chats[chatKey] ELSE <<>>

RECURSIVE stringifyArray(_)
\* JSON.stringify of an array of codes, read back: undefined is written as null
stringifyArray(a) ==
    IF a = <<>> THEN <<>>
    ELSE <<IF Head(a) = Undefined THEN Null ELSE Head(a)>> \o stringifyArray(Tail(a))

\* JSON.stringify(db, null, 4), as JSON.parse reads it back.  A field of an object
\* whose value is undefined is left out and reads as undefined again; an undefined
\* in an array is written as null.
stringify(d) ==
    [users |-> [u \in Usernames |->
                   IF d.users[u] = NoUser THEN NoUser
                   ELSE [d.users[u] EXCEPT !.contacts = stringifyArray(@)]],
     chats |-> d.chats]

\* a db.json that JSON.parse rejects: an empty file, or the head of a document
Unparseable == [unparseable |-> TRUE]

\* loadDatabase: the database a server starts with on file
loadDatabase(file) == IF file = Unparseable THEN EmptyDb ELSE file

\* what writeFileSync may do: write the whole document; fail before it has opened the
\* file (EACCES, EROFS); fail after the open has truncated the file (ENOSPC, EFBIG, EIO)
WriteOutcomes == {"written", "refused", "cut"}

\* saveDatabase: writeFileSync writes the document or throws, and the throw is
\* caught and logged; outcome is what the write does to the file
saveDatabase(d, oldDisk, outcome) ==
    CASE outcome = "written" -> stringify(d)
      [] outcome = "refused" -> oldDisk
      [] outcome = "cut" -> Unparseable

\* a generator that does not compare its draw with the existing codes
generateUserCodeUnchecked(d) == Codes

\* the codes generateUserCode may return for database d
generateUserCode(d) ==
    LET existingCodes == {d.users[u].userCode : u \in OwnKeys(d)}
    IN  Codes \ existingCodes

\* ------------------------------------------------- connection registry ----
ClientsHas(cl, code) == \E i \in DOMAIN cl : cl[i].code = code

ClientsGet(cl, code) ==
    IF ClientsHas(cl, code) THEN cl[CHOOSE i \in DOMAIN cl : cl[i].code = code].ws
    ELSE NoWs

\* a registry whose set keeps the entry a key already has (first login wins)
ClientsSetKeepsOld(cl, code, ws) ==
    IF \E i \in DOMAIN cl : cl[i].code = code THEN cl
    ELSE Append(cl, [code |-> code, ws |-> ws])

\* Map.prototype.set: an existing key keeps its place, a new key goes last
ClientsSet(cl, code, ws) ==
    IF ClientsHas(cl, code)
    THEN [i \in DOMAIN cl |-> IF cl[i].code = code THEN [code |-> code, ws |-> ws] ELSE cl[i]]
    ELSE Append(cl, [code |-> code, ws |-> ws])

ClientsDelete(cl, code) == SeqFilter(cl, {e \in Range(cl) : e.code # code})

\* the codes whose registry entry is ws
BoundCodes(cl, ws) == {e.code : e \in {x \in Range(cl) : x.ws = ws}}

\* ------------------------------------------------------ notifications ----
\* one ws.send(JSON.stringify({type, payload})) on connection to.  A send on a socket
\* that has closed is dropped by ws without a throw; outbox lists the call all the same.
\* A field of the payload whose value is undefined is left out by JSON.stringify and
\* reads as undefined at the other end: it is kept here with the value Undefined.
Send(to, type, payload) == [to |-> to, type |-> type, payload |-> payload]

\* the send of sendContactListUpdate(userCode): viewer is the code the list was drawn
\* for, which is not part of what is sent
SendList(to, userCode, payload) ==
    [to |-> to, type |-> "contactList", payload |-> payload, viewer |-> userCode]

ErrorTo(ws, message) == <<Send(ws, "error", [message |-> message])>>

\* chat.filter(m => m.receiver === userCode && !m.read).length
UnreadCount(chat, userCode) ==
    Cardinality({i \in DOMAIN chat : chat[i].receiver = userCode /\ ~chat[i].read})

\* the callback of user.contacts.map(...) in sendContactListUpdate: the entry of
\* one contact code, or nothing when no own account has that code
ContactDetail(cl, d, userCode) ==
    [contactCode \in ContactCodes |->
        LET contactUsername == FindUsername(d, contactCode)
            contact == UserAt(d, contactUsername)
        IN  IF contact = NoUser THEN <<>>
            ELSE <<[username |-> contactUsername,
                    userCode |-> contact.userCode,
                    isOnline |-> ClientsHas(cl, contact.userCode),
                    unreadCount |-> UnreadCount(ChatOf(d, getChatKey(userCode, contactCode)),
                                                userCode)]>>]

RECURSIVE ContactDetails(_, _, _, _)
\* user.contacts.map(...).filter(Boolean) of sendContactListUpdate
ContactDetails(cl, d, userCode, contacts) ==
    IF contacts = <<>> THEN <<>>
    ELSE ContactDetail(cl, d, userCode)[Head(contacts)]
         \o ContactDetails(cl, d, userCode, Tail(contacts))

sendContactListUpdate(cl, d, userCode) ==
    LET ws == ClientsGet(cl, userCode)
        username == FindUsername(d, userCode)
        user == UserAt(d, username)
    IN  IF ws = NoWs THEN <<>>
        ELSE IF user = NoUser THEN <<>>
        ELSE <<SendList(ws, userCode, ContactDetails(cl, d, userCode, user.contacts))>>

\* the callback of user.contacts.forEach(...) in broadcastOnlineStatus
NotifyContact(cl, d, userCode, isOnline) ==
    [contactCode \in ContactCodes |->
        LET contactWs == ClientsGet(cl, contactCode)
        IN  IF contactWs = NoWs THEN <<>>
            ELSE <<Send(contactWs, "onlineStatus",
                        [userCode |-> userCode, isOnline |-> isOnline])>>
                 \o sendContactListUpdate(cl, d, contactCode)]

RECURSIVE BroadcastTo(_, _, _, _, _)
\* the forEach over user.contacts of broadcastOnlineStatus
BroadcastTo(cl, d, userCode, isOnline, contacts) ==
    IF contacts = <<>> THEN <<>>
    ELSE NotifyContact(cl, d, userCode, isOnline)[Head(contacts)]
         \o BroadcastTo(cl, d, userCode, isOnline, Tail(contacts))

broadcastOnlineStatus(cl, d, userCode, isOnline) ==
    LET username == FindUsername(d, userCode)
    IN  IF Falsy(username) THEN <<>>
        ELSE BroadcastTo(cl, d, userCode, isOnline, d.users[username].contacts)

RECURSIVE SeqOfSet(_)
\* the elements of a finite set in some order
SeqOfSet(S) ==
    IF S = {} THEN <<>>
    ELSE LET x == CHOOSE y \in S : TRUE IN <<x>> \o SeqOfSet(S \ {x})

\* a greeting that also pushes the messages the account has not read
sendLoginSuccessWithBacklog(cl, d, ws, username, userCode) ==
    <<Send(ws, "loginSuccess", [username |-> username, userCode |-> userCode])>>
    \o sendContactListUpdate(cl, d, userCode)
    \o [i \in 1..Cardinality({m \in UNION {Range(d.chats[k]) : k \in DOMAIN d.chats} :
                                   m.receiver = userCode /\ ~m.read}) |->
           Send(ws, "newMessage",
                SeqOfSet({m \in UNION {Range(d.chats[k]) : k \in DOMAIN d.chats} :
                             m.receiver = userCode /\ ~m.read})[i])]

\* a greeting without the contact list
sendLoginSuccessOnly(cl, d, ws, username, userCode) ==
    <<Send(ws, "loginSuccess", [username |-> username, userCode |-> userCode])>>

sendLoginSuccess(cl, d, ws, username, userCode) ==
    <<Send(ws, "loginSuccess", [username |-> username, userCode |-> userCode])>>
    \o sendContactListUpdate(cl, d, userCode)

\* the event a handler is called with; before is the registry and was the database
\* at that moment
Request(type, ws, payload) ==
    [type |-> type, ws |-> ws, payload |-> payload, before |-> clients, was |-> db]

\* ------------------------------------------------------------- state ----
\* null where the page holds an object: state.currentUser and state.activeChat
\* when nobody is logged in and no chat is open, localStorage.getItem("chat-session")
\* where nothing is stored
NullObject == [null |-> TRUE]

\* the state of a script of the page when it is loaded in browser b, script 1 being
\* the first DOMContentLoaded listener of the file and script 2 the second:
\* state = {currentUser: null, contacts: [], activeChat: null, ...}
NewPage(b, script) ==
    [currentUser |-> NullObject, contacts |-> <<>>, activeChat |-> NullObject,
     browser |-> b, script |-> script]

\* no script has this socket
NoPage == NewPage(0, 0)

\* the localStorage of a browser in which the page has stored nothing: getItem
\* returns null for "chat-session" and for "chat-app-token"
NoItems == [session |-> NullObject, token |-> Null]

\* a socket no page has made yet: end is the page's end ("connecting" from new
\* WebSocket(...) to onopen, then "open", "closed" once onclose has run, "left" once
\* the page has made its next socket), up what the page has sent and the server has
\* not taken, down what the server has sent and the page has not taken
NoSock == [end |-> "none", up |-> <<>>, down |-> <<>>]

\* no contactList has been sent
NoView == [seen |-> FALSE, list |-> <<>>]

\* the server started on a db.json that holds the empty database and that can be
\* written
Init ==
    /\ disk = EmptyDb
    /\ db = loadDatabase(disk)
    /\ fs = "written"
    /\ clients = <<>>
    /\ conn = [w \in Conns |-> "none"]
    /\ nextId = 1
    /\ outbox = <<>>
    /\ req = [type |-> "start", ws |-> NoWs, payload |-> <<>>, before |-> <<>>,
             was |-> EmptyDb]
    /\ page = [w \in Conns |-> NoPage]
    /\ events = [w \in Conns |-> <<>>]
    /\ sock = [w \in Conns |-> NoSock]
    /\ storage = [b \in Browsers |-> NoItems]
    /\ views = [w \in Conns |-> [k \in PayloadCodes |-> NoView]]
    /\ stage = 0
    /\ gestures = 0

\* the ws objects of a server without pages are numbered in the order they are
\* accepted
InOrder(ws) == \A w \in DOMAIN conn : w < ws => conn[w] # "none"

\* wss.on("connection")
Connect(ws) ==
    /\ conn[ws] = "none"
    /\ conn' = [conn EXCEPT ![ws] = "open"]
    /\ outbox' = <<>>
    /\ req' = Request("connection", ws, <<>>)
    /\ UNCHANGED <<db, disk, fs, clients, nextId>>

\* a close handler that takes the first entry without comparing its value with ws
FirstEntryOfAny(cl, ws) == IF cl = <<>> THEN 0 ELSE 1

\* the first entry of the registry, in insertion order, whose value is ws
FirstEntryOf(cl, ws) ==
    LET hits == {i \in DOMAIN cl : cl[i].ws = ws}
    IN  IF hits = {} THEN 0 ELSE CHOOSE i \in hits : \A j \in hits : i <= j

\* ws.on("close")
Close(ws) ==
    /\ conn[ws] = "open"
    /\ conn' = [conn EXCEPT ![ws] = "closed"]
    /\ LET i == FirstEntryOf(clients, ws)
       IN  IF i = 0
           THEN /\ clients' = clients
                /\ outbox' = <<>>
           ELSE LET userCode == clients[i].code
                    cl == ClientsDelete(clients, userCode)
                IN  /\ clients' = cl
                    /\ outbox' = broadcastOnlineStatus(cl, db, userCode, FALSE)
    /\ req' = Request("close", ws, <<>>)
    /\ UNCHANGED <<db, disk, fs, nextId>>

\* ---------------------------------------------------------- handlers ----
\* a signup that does not look whether the username has an account
UsernameNeverTaken(d, username) == FALSE

\* if (db.users[username])
UsernameTaken(d, username) == UserAt(d, username) # NoUser

\* an account that starts with its own code as a contact
NewAccountSelfContact(password, userCode) ==
    [password |-> password, userCode |-> userCode, contacts |-> <<userCode>>]

\* the account object handleSignup stores
NewAccount(password, userCode) ==
    [password |-> password, userCode |-> userCode, contacts |-> <<>>]

handleSignup(ws, username, password) ==
    /\ conn[ws] = "open"
    /\ req' = Request("signup", ws, [username |-> username, password |-> password])
    /\ IF UsernameTaken(db, username)
       THEN /\ outbox' = ErrorTo(ws, "Username already exists.")
            /\ UNCHANGED <<db, disk>>
       ELSE \E userCode \in generateUserCode(db) :
               /\ db' = [db EXCEPT !.users[ToKey(username)] = NewAccount(password, userCode)]
               /\ disk' = saveDatabase(db', disk, fs)
               /\ outbox' = <<Send(ws, "signupSuccess", [userCode |-> userCode])>>
    /\ UNCHANGED <<fs, clients, conn, nextId>>

\* the tail handleLogin and handleReconnect share: bind, greet, broadcast.  The field
\* ws.userCode they also set is read nowhere in the server and is not kept here.
BindAndGreet(ws, username, userCode) ==
    LET cl == ClientsSet(clients, userCode, ws)
    IN  /\ clients' = cl
        /\ outbox' = sendLoginSuccess(cl, db, ws, username, userCode)
                     \o broadcastOnlineStatus(cl, db, userCode, TRUE)

\* if (!user || user.password !== password)
BadCredentials(user, password) == user = NoUser \/ user.password # password

handleLogin(ws, username, password) ==
    /\ conn[ws] = "open"
    /\ req' = Request("login", ws, [username |-> username, password |-> password])
    /\ LET user == UserAt(db, username)
       IN  IF BadCredentials(user, password)
           THEN /\ outbox' = ErrorTo(ws, "Invalid username or password.")
                /\ UNCHANGED clients
           ELSE BindAndGreet(ws, username, user.userCode)
    /\ UNCHANGED <<db, disk, fs, conn, nextId>>

\* if (!user || user.userCode !== userCode)
StaleSession(user, userCode) == user = NoUser \/ user.userCode # userCode

handleReconnect(ws, username, userCode) ==
    /\ conn[ws] = "open"
    /\ req' = Request("reconnect", ws, [username |-> username, userCode |-> userCode])
    /\ LET user == UserAt(db, username)
       IN  IF StaleSession(user, userCode)
           THEN /\ outbox' = ErrorTo(ws, "Reconnect failed. Please log in again.")
                /\ UNCHANGED clients
           ELSE BindAndGreet(ws, username, userCode)
    /\ UNCHANGED <<db, disk, fs, conn, nextId>>

\* a push that does not look whether the code is already listed
PushAlways(contacts, code) == Append(contacts, code)

\* if (!contacts.includes(code)) contacts.push(code)
PushIfAbsent(contacts, code) ==
    IF code \in Range(contacts) THEN contacts ELSE Append(contacts, code)

\* an addContact that does not compare the two codes
NeverSelfAdd(adderUserCode, targetUserCode) == FALSE

\* if (adderUserCode === targetUserCode)
IsSelfAdd(adderUserCode, targetUserCode) == adderUserCode = targetUserCode

handleAddContact(ws, adderUserCode, targetUserCode) ==
    /\ conn[ws] = "open"
    /\ req' = Request("addContact", ws,
                      [adderUserCode |-> adderUserCode, targetUserCode |-> targetUserCode])
    /\ LET adderUsername == FindUsername(db, adderUserCode)
           targetUsername == FindUsername(db, targetUserCode)
       IN  IF Falsy(targetUsername)
           THEN /\ outbox' = ErrorTo(ws, "User with that code does not exist.")
                /\ UNCHANGED <<db, disk>>
           ELSE IF IsSelfAdd(adderUserCode, targetUserCode)
           THEN /\ outbox' = ErrorTo(ws, "You cannot add yourself as a contact.")
                /\ UNCHANGED <<db, disk>>
           ELSE IF UserAt(db, adderUsername) = NoUser
           \* db.users[adderUsername].contacts throws; ws.on("message") catches it
           THEN /\ outbox' = ErrorTo(ws, "Invalid message format.")
                /\ UNCHANGED <<db, disk>>
           ELSE LET d1 == [db EXCEPT !.users[ToKey(adderUsername)].contacts =
                                           PushIfAbsent(@, targetUserCode)]
                       d2 == [d1 EXCEPT !.users[targetUsername].contacts =
                                           PushIfAbsent(@, adderUserCode)]
                   IN  /\ db' = d2
                       /\ disk' = saveDatabase(d2, disk, fs)
                       /\ outbox' = sendContactListUpdate(clients, d2, adderUserCode)
                                    \o (IF ClientsGet(clients, targetUserCode) # NoWs
                                        THEN sendContactListUpdate(clients, d2, targetUserCode)
                                        ELSE <<>>)
    /\ UNCHANGED <<fs, clients, conn, nextId>>

\* a history that leaves out what has been read
UnreadHistory(d, cl, currentUserCode, targetUserCode) ==
    [messages |-> SeqFilter(ChatOf(d, getChatKey(currentUserCode, targetUserCode)),
                            {m \in Range(ChatOf(d, getChatKey(currentUserCode, targetUserCode))) :
                                ~m.read}),
     withUser |-> targetUserCode,
     isOnline |-> ClientsHas(cl, targetUserCode)]

\* the payload of chatHistory
ChatHistory(d, cl, currentUserCode, targetUserCode) ==
    [messages |-> ChatOf(d, getChatKey(currentUserCode, targetUserCode)),
     withUser |-> targetUserCode,
     isOnline |-> ClientsHas(cl, targetUserCode)]

handleGetChat(ws, currentUserCode, targetUserCode) ==
    /\ conn[ws] = "open"
    /\ req' = Request("getChat", ws,
                      [currentUserCode |-> currentUserCode, targetUserCode |-> targetUserCode])
    /\ outbox' = <<Send(ws, "chatHistory",
                        ChatHistory(db, clients, currentUserCode, targetUserCode))>>
    /\ UNCHANGED <<db, disk, fs, clients, conn, nextId>>

\* a log that takes the new message at its head
UnshiftMessage(chat, message) == <<message>> \o chat

\* db.chats[chatKey].push(message)
PushMessage(chat, message) == Append(chat, message)

\* a handler that confirms to the sender only what it could not deliver
PushOrConfirm(recipientWs, ws, message) ==
    IF recipientWs # NoWs THEN <<Send(recipientWs, "newMessage", message)>>
    ELSE <<Send(ws, "messageSent", message)>>

\* the two sends of handleSendMessage: to the recipient if the registry has one, and
\* to the sender
PushAndConfirm(recipientWs, ws, message) ==
    (IF recipientWs # NoWs THEN <<Send(recipientWs, "newMessage", message)>> ELSE <<>>)
    \o <<Send(ws, "messageSent", message)>>

handleSendMessage(ws, sender, receiver, text) ==
    /\ conn[ws] = "open"
    /\ req' = Request("sendMessage", ws,
                      [sender |-> sender, receiver |-> receiver, text |-> text])
    /\ \E now \in Times :
          LET message == [id |-> nextId, sender |-> sender, receiver |-> receiver,
                          text |-> text, timestamp |-> now, read |-> FALSE]
              chatKey == getChatKey(sender, receiver)
              d == [db EXCEPT !.chats =
                       (chatKey :> PushMessage(ChatOf(db, chatKey), message)) @@ @]
              recipientWs == ClientsGet(clients, receiver)
          IN  /\ db' = d
              /\ disk' = saveDatabase(d, disk, fs)
              /\ outbox' = PushAndConfirm(recipientWs, ws, message)
    /\ nextId' = nextId + 1
    /\ UNCHANGED <<fs, clients, conn>>

\* a relay that answers the typer when the receiver is not in the registry
RelayOrBounce(recipientWs, ws, typer) ==
    IF recipientWs # NoWs THEN <<Send(recipientWs, "typing", [typer |-> typer])>>
    ELSE <<Send(ws, "typing", [typer |-> typer])>>

\* if (recipientWs) recipientWs.send({type: "typing", payload: {typer}})
Relay(recipientWs, ws, typer) ==
    IF recipientWs # NoWs THEN <<Send(recipientWs, "typing", [typer |-> typer])>> ELSE <<>>

handleTyping(ws, typer, receiver) ==
    /\ conn[ws] = "open"
    /\ req' = Request("typing", ws, [typer |-> typer, receiver |-> receiver])
    /\ outbox' = Relay(ClientsGet(clients, receiver), ws, typer)
    /\ UNCHANGED <<db, disk, fs, clients, conn, nextId>>

\* chat.find(m => m.id === messageId): the index of the first hit, 0 for none
FindMessage(chat, messageId) ==
    LET hits == {i \in DOMAIN chat : chat[i].id = messageId}
    IN  IF hits = {} THEN 0 ELSE CHOOSE i \in hits : \A j \in hits : i <= j

\* a read handler that does not test the read flag
IsHit(chat, i) == i # 0

\* if (message && !message.read), for i the result of the find
IsUnreadHit(chat, i) == i # 0 /\ ~chat[i].read

handleReadMessage(ws, reader, messageId, messageSender) ==
    /\ conn[ws] = "open"
    /\ req' = Request("readMessage", ws,
                      [reader |-> reader, messageId |-> messageId,
                       messageSender |-> messageSender])
    /\ LET chatKey == getChatKey(reader, messageSender)
           chat == ChatOf(db, chatKey)
           i == FindMessage(chat, messageId)
       IN  IF chatKey \in DOMAIN db.chats /\ IsUnreadHit(chat, i)
           THEN LET d == [db EXCEPT !.chats[chatKey][i].read = TRUE]
                       senderWs == ClientsGet(clients, messageSender)
                   IN  /\ db' = d
                       /\ disk' = saveDatabase(d, disk, fs)
                       /\ outbox' = IF senderWs # NoWs
                                    THEN <<Send(senderWs, "readReceipt",
                                                [messageId |-> messageId, reader |-> reader])>>
                                    ELSE <<>>
           ELSE /\ outbox' = <<>>
                /\ UNCHANGED <<db, disk>>
    /\ UNCHANGED <<fs, clients, conn, nextId>>

\* ws.on("message") for data JSON.parse rejects, or whose handler throws on a payload
\* that is not an object
BadEnvelope(ws) ==
    /\ conn[ws] = "open"
    /\ req' = Request("badEnvelope", ws, <<>>)
    /\ outbox' = ErrorTo(ws, "Invalid message format.")
    /\ UNCHANGED <<db, disk, fs, clients, conn, nextId>>

\* handleMessage for a type that is no property of messageHandlers: the lookup
\* yields undefined and the type is logged
UnknownType(ws) ==
    /\ conn[ws] = "open"
    /\ req' = Request("unknownType", ws, <<>>)
    /\ outbox' = <<>>
    /\ UNCHANGED <<db, disk, fs, clients, conn, nextId>>

\* messageHandlers is an object literal, so messageHandlers[type] also finds what it
\* inherits from Object.prototype.  What it finds is truthy, and handler(data) calls
\* it with no this value.  Of these members, "__proto__" is an object and no
\* function, and the others listed here convert their this value to an object, so
\* the call throws a TypeError
ThrowingTypes ==
    {"__proto__", "valueOf", "hasOwnProperty", "isPrototypeOf", "propertyIsEnumerable",
     "toLocaleString", "__defineGetter__", "__defineSetter__", "__lookupGetter__",
     "__lookupSetter__"}
\* the members whose call returns: Object.prototype.toString gives "[object
\* Undefined]" and constructor, which is Object, gives data back
ReturningTypes == {"toString", "constructor"}
InheritedTypes == ThrowingTypes \cup ReturningTypes

\* handleMessage for a type that names an inherited member of messageHandlers: the
\* member is called as the handler; what it throws is caught by ws.on("message"),
\* which answers as for data it cannot parse, and what it returns is dropped
InheritedType(ws, type) ==
    /\ conn[ws] = "open"
    /\ req' = Request(type, ws, <<>>)
    /\ outbox' = IF type \in ThrowingTypes THEN ErrorTo(ws, "Invalid message format.")
                 ELSE <<>>
    /\ UNCHANGED <<db, disk, fs, clients, conn, nextId>>

\* the inherited members a peer of a run names as type: one whose call throws and
\* one whose call returns
MemberTypes == {"valueOf", "toString"}

\* the server alone: no page is attached to the connections and requests carry
\* whatever a peer can put in an envelope
Unobserved == UNCHANGED <<page, events, sock, storage, views, stage, gestures>>

Next ==
    \/ \E ws \in Conns : InOrder(ws) /\ Connect(ws) /\ Unobserved
    \/ \E ws \in Conns : Close(ws) /\ Unobserved
    \/ \E ws \in Conns, u \in PlainNames, p \in Passwords :
          handleSignup(ws, u, p) /\ Unobserved
    \/ \E ws \in Conns, u \in PlainNames, p \in LoginPasswords :
          handleLogin(ws, u, p) /\ Unobserved
    \/ \E ws \in Conns, u \in PlainNames, c \in PayloadCodes :
          handleReconnect(ws, u, c) /\ Unobserved
    \/ \E ws \in Conns, a \in PayloadCodes, t \in PayloadCodes :
          handleAddContact(ws, a, t) /\ Unobserved
    \/ \E ws \in Conns, c \in Codes, t \in Codes :
          handleGetChat(ws, c, t) /\ Unobserved
    \/ \E ws \in Conns, s \in Codes, r \in Codes, t \in Texts :
          nextId <= MaxMsgs /\ handleSendMessage(ws, s, r, t) /\ Unobserved
    \/ \E ws \in Conns, t \in Codes, r \in Codes :
          handleTyping(ws, t, r) /\ Unobserved
    \/ \E ws \in Conns, r \in Codes, m \in MsgIds, s \in Codes :
          handleReadMessage(ws, r, m, s) /\ Unobserved
    \/ \E ws \in Conns : BadEnvelope(ws) /\ Unobserved
    \/ \E ws \in Conns : UnknownType(ws) /\ Unobserved
    \/ \E ws \in Conns, type \in MemberTypes : InheritedType(ws, type) /\ Unobserved

Spec == Init /\ [][Next]_vars

\* ------------------------------------------- accounts under odd names ----
\* The server alone, through connects, closes, signups, logins, reconnects and
\* contact-adds whose payloads carry, besides an ordinary name, the names the code
\* treats in a way of its own, and codes and passwords that are missing.

\* contact entries the accounts hold during one run
MaxContacts == 2

RECURSIVE SumContacts(_, _)
\* the number of entries in the contact lists of the accounts S of database d
SumContacts(d, S) ==
    IF S = {} THEN 0
    ELSE LET u == CHOOSE v \in S : TRUE
         IN  Len(d.users[u].contacts) + SumContacts(d, S \ {u})

ContactCount(d) == SumContacts(d, OwnKeys(d))

AccountsNext ==
    \/ \E ws \in Conns : InOrder(ws) /\ Connect(ws) /\ Unobserved
    \/ \E ws \in Conns : Close(ws) /\ Unobserved
    \/ \E ws \in Conns, u \in OddNames, p \in Passwords :
          handleSignup(ws, u, p) /\ Unobserved
    \/ \E ws \in Conns, u \in OddNames, p \in OddPasswords :
          handleLogin(ws, u, p) /\ Unobserved
    \/ \E ws \in Conns, u \in OddNames, c \in PayloadCodes :
          handleReconnect(ws, u, c) /\ Unobserved
    \/ \E ws \in Conns, a \in PayloadCodes, t \in PayloadCodes :
          handleAddContact(ws, a, t) /\ ContactCount(db') <= MaxContacts /\ Unobserved

Accounts == Init /\ [][AccountsNext]_vars

\* ------------------------------------------- the server and its file ----
\* The server and its peers on a file system whose writes may fail: what the next
\* write of db.json will do changes between the handlers, and the process may stop
\* and be started again on the file the handlers have left.

\* the file system changes what the next writeFileSync on db.json will do
Fault(outcome) ==
    /\ fs # outcome
    /\ fs' = outcome
    /\ UNCHANGED <<db, disk, clients, conn, nextId, outbox, req>>

\* the process stops and is started again: loadDatabase reads db.json, the registry
\* is a new Map and every socket of the old process is gone; no close handler runs
Restart ==
    /\ db' = loadDatabase(disk)
    /\ clients' = <<>>
    /\ conn' = [w \in DOMAIN conn |-> IF conn[w] = "none" THEN "none" ELSE "closed"]
    /\ outbox' = <<>>
    /\ req' = [type |-> "start", ws |-> NoWs, payload |-> <<>>, before |-> <<>>,
               was |-> loadDatabase(disk)]
    /\ UNCHANGED <<disk, fs, nextId>>

\* the pairs of codes the peers of this run name in a request: two codes that differ
CodePairs == {pair \in Codes \X Codes : pair[1] # pair[2]}

DurableNext ==
    \/ \E ws \in Conns : InOrder(ws) /\ Connect(ws) /\ Unobserved
    \/ \E ws \in Conns : Close(ws) /\ Unobserved
    \/ \E ws \in Conns, u \in PlainNames, p \in Passwords :
          handleSignup(ws, u, p) /\ Unobserved
    \/ \E ws \in Conns, u \in PlainNames, p \in Passwords :
          handleLogin(ws, u, p) /\ Unobserved
    \/ \E ws \in Conns, pair \in CodePairs :
          handleAddContact(ws, pair[1], pair[2]) /\ Unobserved
    \/ \E ws \in Conns, pair \in CodePairs :
          nextId <= MaxMsgs /\ handleSendMessage(ws, pair[1], pair[2], Hi) /\ Unobserved
    \/ \E ws \in Conns, pair \in CodePairs, m \in MsgIds :
          handleReadMessage(ws, pair[1], m, pair[2]) /\ Unobserved
    \/ \E outcome \in WriteOutcomes : Fault(outcome) /\ Unobserved
    \/ Restart /\ Unobserved

Durable == Init /\ [][DurableNext]_vars

\* ------------------------------------------------ the browser page ----
\* The page whose script is src/unnamed/part_000.  The file holds two
\* DOMContentLoaded listeners, each with a state, a connectWebSocket and a
\* setupEventListeners of its own, so a page that is loaded makes two sockets.  The
\* second listener, the script that keeps state.messages, is the client of
\* src/server.js.  index.html is not part of the source: the page is taken to be the
\* one the second script looks its elements up in, which has no element
\* "toggle-to-signup".  setupEventListeners of the first script then throws in its
\* first statement, after connectWebSocket has made the socket and set its
\* callbacks: the first script attaches no listener to a form or a button, and its
\* socket carries what its callbacks send.  Of the listeners of the second script,
\* those of the theme toggle, the modals, the profile button and the copy buttons
\* touch the DOM and the "chat-theme" item only and are no steps here.
\*
\* The server and a page are two processes: what one sends waits in the socket
\* until the other takes it, one envelope at a time and in the order sent.  Each end
\* of a socket closes on its own; what is on its way to an end that has closed is
\* lost.  state.messages and the DOM are not kept: the page draws them from what is
\* kept here.

\* String.prototype.trim: the string without the blanks at its two ends
RECURSIVE TrimStart(_)
TrimStart(s) == IF s # <<>> /\ Head(s) = Space THEN TrimStart(Tail(s)) ELSE s

Reverse(s) == [i \in 1..Len(s) |-> s[Len(s) + 1 - i]]

Trim(s) == Reverse(TrimStart(Reverse(TrimStart(s))))

\* { type, payload }, as JSON.stringify writes it and JSON.parse reads it
Envelope(type, payload) == [type |-> type, payload |-> payload]

\* sendToServer on the page at w: if (state.ws && state.ws.readyState ===
\* WebSocket.OPEN) state.ws.send(...); what is sent on a socket whose other end has
\* closed is lost
sendToServer(w, type, payload) ==
    IF sock[w].end = "open" /\ conn[w] = "open"
    THEN [sock EXCEPT ![w].up = Append(@, Envelope(type, payload))]
    ELSE sock

\* state.contacts.find(c => c.userCode === userCode): its index, 0 for none
FindContact(contacts, userCode) ==
    LET hits == {i \in DOMAIN contacts : contacts[i].userCode = userCode}
    IN  IF hits = {} THEN 0 ELSE CHOOSE i \in hits : \A j \in hits : i <= j

\* updateUnreadCount: contact.unreadCount = count, for the contact that is found
updateUnreadCount(contacts, userCode, count) ==
    LET i == FindContact(contacts, userCode)
    IN  IF i = 0 THEN contacts
        ELSE [contacts EXCEPT ![i].unreadCount = count]

\* updateOnlineStatus: contact.isOnline = isOnline, for the contact that is found
updateOnlineStatus(contacts, userCode, isOnline) ==
    LET i == FindContact(contacts, userCode)
    IN  IF i = 0 THEN contacts
        ELSE [contacts EXCEPT ![i].isOnline = isOnline]

\* the readMessage the page sends for message m as reader userCode
ReadEnvelope(m, userCode) ==
    Envelope("readMessage", [reader |-> userCode, messageId |-> m.id,
                             messageSender |-> m.sender])

RECURSIVE ReadRequests(_, _)
\* the second forEach of renderChat: a readMessage for every message of the history
\* that userCode is the receiver of and that is not read
ReadRequests(messages, userCode) ==
    IF messages = <<>> THEN <<>>
    ELSE (IF Head(messages).receiver = userCode /\ ~Head(messages).read
          THEN <<ReadEnvelope(Head(messages), userCode)>> ELSE <<>>)
         \o ReadRequests(Tail(messages), userCode)

\* what a run of handleServerMessage leaves: the state of the page, the
\* "chat-session" item of localStorage and what the page has sent
Handled(p, session, sends) == [page |-> p, session |-> session, sends |-> sends]

\* state.ws.onmessage of the second script: handleServerMessage({type, payload}) on
\* page p of a browser whose localStorage holds session; what a handler throws is
\* caught and logged, and what it has assigned before stays
handleServerMessage(p, session, type, payload) ==
    CASE type = "loginSuccess" ->
            LET user == [username |-> payload.username, userCode |-> payload.userCode]
            IN  Handled([p EXCEPT !.currentUser = user], user, <<>>)
      [] type = "contactList" -> Handled([p EXCEPT !.contacts = payload], session, <<>>)
      [] type = "chatHistory" ->
            LET i == FindContact(p.contacts, payload.withUser)
            IN  IF i = 0 THEN Handled(p, session, <<>>)
                ELSE LET contact == [username |-> p.contacts[i].username,
                                     userCode |-> p.contacts[i].userCode]
                     IN  IF p.currentUser = NullObject /\ payload.messages # <<>>
                         \* renderChat: appendMessage throws on state.currentUser.userCode
                         THEN Handled([p EXCEPT !.activeChat = contact], session, <<>>)
                         ELSE Handled(
                                 [p EXCEPT !.activeChat = contact,
                                           !.contacts = updateOnlineStatus(
                                               updateUnreadCount(@, payload.withUser, 0),
                                               payload.withUser, payload.isOnline)],
                                 session,
                                 IF p.currentUser = NullObject THEN <<>>
                                 ELSE ReadRequests(payload.messages, p.currentUser.userCode))
      [] type = "newMessage" ->
            \* state.currentUser.userCode throws on a page nobody is logged in on
            IF p.currentUser = NullObject THEN Handled(p, session, <<>>)
            ELSE LET partnerCode == IF payload.sender = p.currentUser.userCode
                                    THEN payload.receiver ELSE payload.sender
                 IN  IF p.activeChat # NullObject /\ partnerCode = p.activeChat.userCode
                     THEN Handled(p, session,
                                  <<ReadEnvelope(payload, p.currentUser.userCode)>>)
                     ELSE Handled([p EXCEPT !.contacts =
                                               updateUnreadCount(@, payload.sender, 1)],
                                  session, <<>>)
      [] type = "onlineStatus" ->
            Handled([p EXCEPT !.contacts =
                                 updateOnlineStatus(@, payload.userCode, payload.isOnline)],
                    session, <<>>)
      [] OTHER -> Handled(p, session, <<>>)

\* what a run of the first script's handleServerMessage leaves: the state of the
\* page and the "chat-app-token" item of localStorage
HandledFirst(p, token) == [page |-> p, token |-> token]

\* the message callback of the first script.  Of the types src/server.js sends it
\* has handlers for error, signupSuccess, loginSuccess, newMessage and typing.
\* loginSuccess sets state.currentUser and stores payload.token, which the server
\* does not send: localStorage.setItem stores the string "undefined".  newMessage
\* looks the sender up in state.contacts, which only "contacts" and
\* "addContactSuccess" fill, two types the server never sends; the others touch the
\* DOM
handleServerMessageFirst(p, token, type, payload) ==
    IF type = "loginSuccess"
    THEN HandledFirst([p EXCEPT !.currentUser = [username |-> payload.username,
                                                 userCode |-> payload.userCode]],
                      UndefinedName)
    ELSE HandledFirst(p, token)

RECURSIVE Queue(_, _, _)
\* the sockets after the sends of out, the server having the connections c: ws.send
\* puts an envelope in the socket it is sent on, unless the socket has closed at the
\* server's end (see Send) or at the page's
Queue(s, out, c) ==
    IF out = <<>> THEN s
    ELSE LET e == Head(out)
         IN  Queue(IF c[e.to] = "open" /\ s[e.to].end \in {"connecting", "open"}
                   THEN [s EXCEPT ![e.to].down = Append(@, Envelope(e.type, e.payload))]
                   ELSE s,
                   Tail(out), c)

\* a step of a page alone: the server handles nothing and sends nothing
ServerIdle ==
    /\ outbox' = <<>>
    /\ req' = Request("page", NoWs, <<>>)
    /\ UNCHANGED <<db, disk, fs, clients, conn, nextId>>

\* the envelopes on their way in all sockets
RECURSIVE InFlight(_)
InFlight(S) ==
    IF S = {} THEN 0
    ELSE LET w == CHOOSE x \in S : TRUE
         IN  Len(sock[w].up) + Len(sock[w].down) + InFlight(S \ {w})

\* the sockets the pages have made so far are the first of their numbers
NextSocket(w) ==
    /\ w \in DOMAIN sock
    /\ sock[w].end = "none"
    /\ \A v \in DOMAIN sock : v < w => sock[v].end # "none"

\* a script is at socket w: the socket is its state.socket or its state.ws
HasPage(w) == sock[w].end \in {"connecting", "open", "closed"}

\* the browsers that have loaded the page
UsedBrowsers == {page[w].browser : w \in {v \in DOMAIN sock : HasPage(v)}}

\* browser b loads the page: the first script's connectWebSocket makes socket w, the
\* second script's init() makes socket w2.  Browsers are taken in the order of their
\* numbers.
Load(w, w2, b) ==
    /\ NextSocket(w)
    /\ w2 = w + 1
    /\ w2 \in DOMAIN sock
    /\ \A c \in Browsers : c < b => c \in UsedBrowsers
    /\ sock' = [sock EXCEPT ![w].end = "connecting", ![w2].end = "connecting"]
    /\ page' = [page EXCEPT ![w] = NewPage(b, 1), ![w2] = NewPage(b, 2)]
    /\ ServerIdle
    /\ UNCHANGED <<events, storage, views, stage>>

\* wss.on("connection") for the socket a page has made
Accept(w) ==
    /\ sock[w].end = "connecting"
    /\ Connect(w)
    /\ UNCHANGED <<page, events, sock, storage, views, stage>>

\* a page that sends no reconnect when its socket opens
onopenSilent(session) == <<>>

\* state.ws.onopen of the second script: what it sends when its socket opens, the
\* reconnect if localStorage holds a session
onopen(session) ==
    IF session # NullObject THEN <<Envelope("reconnect", session)>> ELSE <<>>

\* the open callback of the first script: if (token) sendToServer("authenticate",
\* {token})
onopenFirst(token) ==
    IF Falsy(token) THEN <<>> ELSE <<Envelope("authenticate", [token |-> token])>>

\* the socket of a page opens, after the server has accepted it
Opened(w) ==
    /\ sock[w].end = "connecting"
    /\ conn[w] # "none"
    /\ LET items == storage[page[w].browser]
           sends == IF page[w].script = 1 THEN onopenFirst(items.token)
                    ELSE onopen(items.session)
       IN  sock' = [sock EXCEPT ![w].end = "open",
                                ![w].up = IF conn[w] = "open" THEN sends ELSE <<>>]
    /\ ServerIdle
    /\ UNCHANGED <<page, events, storage, views, stage>>

\* ws.on("close") for the socket of a page: what the page has sent and the server
\* has not taken is lost, what the handler sends goes to the sockets
Closed(w) ==
    /\ Close(w)
    /\ sock' = Queue([sock EXCEPT ![w].up = <<>>], outbox', conn')
    /\ UNCHANGED <<page, events, storage, views, stage>>

\* the close callback of either script: the page's end of the socket has closed,
\* whether or not it had opened; what was on its way to the page is lost and the
\* timer setTimeout(connectWebSocket, 3000) is set
onclose(w) ==
    /\ sock[w].end \in {"connecting", "open"}
    /\ sock' = [sock EXCEPT ![w].end = "closed", ![w].down = <<>>,
                            ![w].up = IF conn[w] = "open" THEN @ ELSE <<>>]
    /\ ServerIdle
    /\ UNCHANGED <<page, events, storage, views, stage>>

\* the timer of the script at w fires: connectWebSocket makes socket w2, which is
\* the script's socket from now on
Redial(w, w2) ==
    /\ sock[w].end = "closed"
    /\ NextSocket(w2)
    /\ sock' = [sock EXCEPT ![w].end = "left", ![w2].end = "connecting"]
    /\ page' = [page EXCEPT ![w2] = page[w], ![w] = NoPage]
    /\ ServerIdle
    /\ UNCHANGED <<events, storage, views, stage>>

\* a listener of the second script runs on the page at w, which changes nothing on
\* the server
Click(w) ==
    /\ HasPage(w)
    /\ page[w].script = 2
    /\ ServerIdle
    /\ UNCHANGED <<events, views, stage>>

\* the submit of the login form: sendToServer("login", {username, password})
SubmitLogin(w, username, password) ==
    /\ Click(w)
    /\ sock' = sendToServer(w, "login", [username |-> username, password |-> password])
    /\ UNCHANGED <<page, storage>>

\* the submit of the signup form: sendToServer("signup", {username, password})
SubmitSignup(w, username, password) ==
    /\ Click(w)
    /\ sock' = sendToServer(w, "signup", [username |-> username, password |-> password])
    /\ UNCHANGED <<page, storage>>

\* the submit of the add-contact form: targetUserCode = input.trim().toUpperCase();
\* if (targetUserCode && state.currentUser) sendToServer("addContact", ...).  What
\* is typed here is made of digits and blanks, which toUpperCase leaves as they are
SubmitAddContact(w, input) ==
    /\ Click(w)
    /\ Trim(input) # <<>>
    /\ page[w].currentUser # NullObject
    /\ sock' = sendToServer(w, "addContact",
                    [adderUserCode |-> page[w].currentUser.userCode,
                     targetUserCode |-> Trim(input)])
    /\ UNCHANGED <<page, storage>>

\* the input listener of the message field: if (state.currentUser &&
\* state.activeChat) sendToServer("typing", {typer, receiver})
InputTyping(w) ==
    /\ Click(w)
    /\ page[w].currentUser # NullObject
    /\ page[w].activeChat # NullObject
    /\ sock' = sendToServer(w, "typing",
                    [typer |-> page[w].currentUser.userCode,
                     receiver |-> page[w].activeChat.userCode])
    /\ UNCHANGED <<page, storage>>

\* openChat(userCode), the click on a contact of the list: if (!state.currentUser) return
OpenChat(w, i) ==
    /\ Click(w)
    /\ page[w].currentUser # NullObject
    /\ i \in DOMAIN page[w].contacts
    /\ sock' = sendToServer(w, "getChat",
                    [currentUserCode |-> page[w].currentUser.userCode,
                     targetUserCode |-> page[w].contacts[i].userCode])
    /\ UNCHANGED <<page, storage>>

\* the sendMessage envelopes on their way to the server
RECURSIVE SendsInFlight(_)
SendsInFlight(S) ==
    IF S = {} THEN 0
    ELSE LET w == CHOOSE x \in S : TRUE
         IN  Cardinality({i \in DOMAIN sock[w].up : sock[w].up[i].type = "sendMessage"})
             + SendsInFlight(S \ {w})

\* the submit of the message form: text = input.trim(); if (text &&
\* state.currentUser && state.activeChat) sendToServer("sendMessage", ...)
SubmitMessage(w, input) ==
    /\ Click(w)
    /\ Trim(input) # <<>>
    /\ page[w].currentUser # NullObject
    /\ page[w].activeChat # NullObject
    /\ sock' = sendToServer(w, "sendMessage",
                    [sender |-> page[w].currentUser.userCode,
                     receiver |-> page[w].activeChat.userCode,
                     text |-> Trim(input)])
    /\ UNCHANGED <<page, storage>>

\* an envelope put in the socket of a page by other means than its listeners: a
\* sendMessage whose payload has a sender and a receiver and no text, a text that
\* JSON.parse rejects, an envelope of a type without a handler of its own
Inject(w, envelope) ==
    /\ Click(w)
    /\ sock' = sendToServer(w, envelope.type, envelope.payload)
    /\ UNCHANGED <<page, storage>>

\* the sendMessage without a text that can be sent for the page at w
Textless(w) ==
    IF page[w].currentUser # NullObject /\ page[w].activeChat # NullObject
    THEN {Envelope("sendMessage", [sender |-> page[w].currentUser.userCode,
                                   receiver |-> page[w].activeChat.userCode,
                                   text |-> Undefined])}
    ELSE {}

\* the click on the back button: state.activeChat = null
BackToContacts(w) ==
    /\ Click(w)
    /\ page' = [page EXCEPT ![w].activeChat = NullObject]
    /\ UNCHANGED <<sock, storage>>

\* the click on the logout button: showAuth()
Logout(w) ==
    /\ Click(w)
    /\ page' = [page EXCEPT ![w].currentUser = NullObject, ![w].activeChat = NullObject]
    /\ storage' = [storage EXCEPT ![page[w].browser].session = NullObject]
    /\ UNCHANGED sock

\* the own properties of messageHandlers: the types handleMessage has a handler of
\* its own for
HandledTypes ==
    {"signup", "login", "addContact", "getChat", "sendMessage", "typing", "readMessage",
     "reconnect"}

\* ws.on("message") for the envelope e that has come in on connection w: data that
\* JSON.parse rejects is here an envelope of the type "badEnvelope"
Handle(w, e) ==
    \/ /\ e.type = "signup"
       /\ handleSignup(w, e.payload.username, e.payload.password)
    \/ /\ e.type = "login"
       /\ handleLogin(w, e.payload.username, e.payload.password)
    \/ /\ e.type = "addContact"
       /\ handleAddContact(w, e.payload.adderUserCode, e.payload.targetUserCode)
    \/ /\ e.type = "getChat"
       /\ handleGetChat(w, e.payload.currentUserCode, e.payload.targetUserCode)
    \/ /\ e.type = "sendMessage"
       /\ handleSendMessage(w, e.payload.sender, e.payload.receiver, e.payload.text)
    \/ /\ e.type = "typing"
       /\ handleTyping(w, e.payload.typer, e.payload.receiver)
    \/ /\ e.type = "readMessage"
       /\ handleReadMessage(w, e.payload.reader, e.payload.messageId, e.payload.messageSender)
    \/ /\ e.type = "reconnect"
       /\ handleReconnect(w, e.payload.username, e.payload.userCode)
    \/ /\ e.type = "badEnvelope"
       /\ BadEnvelope(w)
    \/ /\ e.type \in InheritedTypes
       /\ InheritedType(w, e.type)
    \/ /\ e.type \notin HandledTypes \cup InheritedTypes \cup {"badEnvelope"}
       /\ UnknownType(w)

\* ws.on("message") for the oldest envelope in the socket of a page: the handler
\* runs and what it sends goes to the sockets
Receive(w) ==
    /\ sock[w].up # <<>>
    /\ Handle(w, Head(sock[w].up))
    /\ sock' = Queue([sock EXCEPT ![w].up = Tail(@)], outbox', conn')
    /\ UNCHANGED <<page, events, storage, views, stage>>

\* the message callback of the script at w for the oldest envelope on its way to it
Arrive(w) ==
    /\ sock[w].end = "open"
    /\ sock[w].down # <<>>
    /\ LET e == Head(sock[w].down)
           b == page[w].browser
       IN  IF page[w].script = 1
           THEN \E r \in {handleServerMessageFirst(page[w], storage[b].token,
                                                   e.type, e.payload)} :
                   /\ page' = [page EXCEPT ![w] = r.page]
                   /\ storage' = [storage EXCEPT ![b].token = r.token]
                   /\ sock' = [sock EXCEPT ![w].down = Tail(@)]
           ELSE \E r \in {handleServerMessage(page[w], storage[b].session,
                                              e.type, e.payload)} :
                   /\ page' = [page EXCEPT ![w] = r.page]
                   /\ storage' = [storage EXCEPT ![b].session = r.session]
                   /\ sock' = [sock EXCEPT ![w].down = Tail(@),
                                           ![w].up = IF conn[w] = "open" THEN @ \o r.sends
                                                     ELSE <<>>]
    /\ events' = [events EXCEPT ![w] =
                     IF Head(sock[w].down).type \in {"newMessage", "messageSent"}
                     THEN Append(@, Head(sock[w].down).payload) ELSE @]
    /\ ServerIdle
    /\ UNCHANGED <<views, stage>>

\* ------------------------------------------- the server with its pages ----
\* messages created during one run of the server with its pages
MaxChatMsgs == 2
ChatMsgIds == 1..MaxChatMsgs

\* sockets the pages make during one run of the server with its pages
MaxWires == 5
Wires == 1..MaxWires

\* envelopes on their way, in all sockets together, beyond which no user sends
\* another; what the callbacks of a page and the handlers of the server send is
\* sent whatever is on its way
MaxInFlight == 3

\* what the users of the pages do during one run, by weight: a login with the
\* password of the account, the opening of a chat and the sending of a text weigh
\* one each, and everything else weighs AsideCost: a signup, a login with another
\* password, an add-contact, a typing, a click on the back or the logout button, an
\* envelope no listener sends, and the loss of a socket at either end
MaxGestures == 6
AsideCost == 4

\* there is room in the sockets for what a user sends
Room == InFlight(DOMAIN sock) < MaxInFlight

\* something of weight n is done
Weigh(n) == gestures + n <= MaxGestures /\ gestures' = gestures + n

\* a user logs in, opens a chat or sends a text
Gesture == Weigh(1)

\* a user does another thing, or a socket is lost
Aside == Weigh(AsideCost)

\* a step that is none of a user
Quiet == UNCHANGED gestures

\* the transport of socket w is lost or being lost: one of its ends has closed
Lost(w) == conn[w] = "closed" \/ sock[w].end \in {"closed", "left"}

\* an end of socket w closes: after the other end, or as the loss of the socket
Loss(w) == IF Lost(w) THEN Quiet ELSE Aside

\* no socket is in the making
Calm == \A v \in DOMAIN sock : sock[v].end # "connecting"

\* a db.json left by an earlier run: alice and bob, each the other's contact
StoredDb ==
    [users |-> [u \in Usernames |->
                   IF u = Alice
                   THEN [password |-> Pw1, userCode |-> <<1>>, contacts |-> << <<2>> >>]
                   ELSE IF u = Bob
                   THEN [password |-> Pw1, userCode |-> <<2>>, contacts |-> << <<1>> >>]
                   ELSE NoUser],
     chats |-> <<>>]

\* the server started by loadDatabase on that file, before any page is loaded
SystemInit ==
    /\ disk = StoredDb
    /\ db = loadDatabase(disk)
    /\ fs = "written"
    /\ clients = <<>>
    /\ conn = [w \in Wires |-> "none"]
    /\ nextId = 1
    /\ outbox = <<>>
    /\ req = [type |-> "start", ws |-> NoWs, payload |-> <<>>, before |-> <<>>,
             was |-> StoredDb]
    /\ page = [w \in Wires |-> NoPage]
    /\ events = [w \in Wires |-> <<>>]
    /\ sock = [w \in Wires |-> NoSock]
    /\ storage = [b \in Browsers |-> NoItems]
    /\ views = [w \in Wires |-> [k \in PayloadCodes |-> NoView]]
    /\ stage = 0
    /\ gestures = 0

\* the user of browser b: alice at the first, bob at the others
NameAt(b) == IF b = 1 THEN Alice ELSE Bob

\* what the users type as password: the one of their account and another
FormPasswords == Passwords \cup {BadPassword}

\* what the users type into the add-contact form: a code, a code between blanks, or
\* a blank
AddInputs == Codes \cup {<<Space, 2, Space>>, <<Space>>}

\* what the users type into the message form: a text, the text between blanks, or a
\* blank
MessageInputs == {Hi, <<Space>> \o Hi \o <<Space>>, <<Space>>}

\* a message can still be created in this run
CanSend == nextId + SendsInFlight(DOMAIN sock) <= MaxChatMsgs

\* Two browsers load the page once each, the second when the sockets made before
\* have opened.  The users type the name of their own account, do what weighs
\* MaxGestures in all and send nothing of their own while MaxInFlight envelopes are
\* on their way; a socket closes at either end at any moment.
SystemNext ==
    \/ \E w \in Wires, b \in Browsers :
          b \notin UsedBrowsers /\ Calm /\ Load(w, w + 1, b) /\ Quiet
    \/ \E w \in Wires : Accept(w) /\ Quiet
    \/ \E w \in Wires : Opened(w) /\ Quiet
    \/ \E w \in Wires : Closed(w) /\ Loss(w)
    \/ \E w \in Wires : onclose(w) /\ Loss(w)
    \/ \E w \in Wires, w2 \in Wires : Redial(w, w2) /\ Quiet
    \/ \E w \in Wires : \E p \in FormPasswords :
          Room /\ SubmitLogin(w, NameAt(page[w].browser), p)
               /\ (IF p = Pw1 THEN Gesture ELSE Aside)
    \/ \E w \in Wires : Room /\ SubmitSignup(w, NameAt(page[w].browser), Pw1) /\ Aside
    \/ \E w \in Wires, c \in AddInputs : Room /\ SubmitAddContact(w, c) /\ Aside
    \/ \E w \in Wires : Room /\ InputTyping(w) /\ Aside
    \/ \E w \in Wires, i \in 1..Cardinality(Usernames) : Room /\ OpenChat(w, i) /\ Gesture
    \/ \E w \in Wires, t \in MessageInputs :
          Room /\ CanSend /\ SubmitMessage(w, t) /\ Gesture
    \/ \E w \in Wires : \E e \in Textless(w) : Room /\ CanSend /\ Inject(w, e) /\ Aside
    \/ \E w \in Wires : Room /\ Inject(w, Envelope("badEnvelope", <<>>)) /\ Aside
    \/ \E w \in Wires : Room /\ Inject(w, Envelope("unknownType", <<>>)) /\ Aside
    \/ \E w \in Wires, type \in MemberTypes :
          Room /\ Inject(w, Envelope(type, <<>>)) /\ Aside
    \/ \E w \in Wires : BackToContacts(w) /\ Aside
    \/ \E w \in Wires : Logout(w) /\ Aside
    \/ \E w \in Wires : Receive(w) /\ Quiet
    \/ \E w \in Wires : Arrive(w) /\ Quiet

System == SystemInit /\ [][SystemNext]_vars

\* ------------------------------------------- the end-to-end scenario ----
\* The requests of the scenario, in their order, from two connections: alice's is
\* the first the server accepts and bob's the second.  Between them either
\* connection may send typing events and envelopes the server drops.

\* the code signup gave the account of username
CodeOf(username) == db.users[username].userCode

\* a step of the scenario has been taken
Advance == stage' = stage + 1 /\ UNCHANGED <<page, events, sock, storage, views, gestures>>

ScenarioNext ==
    \/ stage = 0 /\ Connect(1) /\ Advance
    \/ stage = 1 /\ handleSignup(1, Alice, Pw1) /\ Advance
    \/ stage = 2 /\ Connect(2) /\ Advance
    \/ stage = 3 /\ handleSignup(2, Bob, Pw2) /\ Advance
    \/ stage = 4 /\ handleLogin(1, Alice, Pw1) /\ Advance
    \/ stage = 5 /\ handleAddContact(1, CodeOf(Alice), CodeOf(Bob)) /\ Advance
    \/ stage = 6 /\ handleSendMessage(1, CodeOf(Alice), CodeOf(Bob), Hi) /\ Advance
    \/ stage = 7 /\ handleLogin(2, Bob, Pw2) /\ Advance
    \/ stage = 8 /\ handleGetChat(2, CodeOf(Bob), CodeOf(Alice)) /\ Advance
    \/ stage = 9 /\ handleReadMessage(2, CodeOf(Bob), nextId - 1, CodeOf(Alice)) /\ Advance
    \/ \E ws \in Conns, t \in PayloadCodes, r \in PayloadCodes :
          handleTyping(ws, t, r) /\ Unobserved
    \/ \E ws \in Conns : BadEnvelope(ws) /\ Unobserved
    \/ \E ws \in Conns : UnknownType(ws) /\ Unobserved
    \/ \E ws \in Conns, type \in MemberTypes : InheritedType(ws, type) /\ Unobserved

Scenario == Init /\ [][ScenarioNext]_vars

\* ---------------------------------------------------- one page alone ----
\* The server with the page of one browser, whose user submits the forms with any
\* name and password whether or not somebody is logged in, opens the chat, types,
\* goes back and logs out while earlier requests and their answers are still on
\* their way, and whose sockets close at either end at any moment and are made
\* again by connectWebSocket.

\* envelopes on their way beyond which the users of a run with one browser, or with
\* reconnections, send no other
MaxQueued == 2

\* the one browser
Solo == 1

\* what the forms send as username: the field is a string, whatever the user types
FormNames == PlainNames \cup {ProtoName}

\* there is room in the sockets for what the users of such a run send
SoloRoom == InFlight(DOMAIN sock) < MaxQueued

AloneNext ==
    \/ \E w \in Wires : Solo \notin UsedBrowsers /\ Load(w, w + 1, Solo) /\ Quiet
    \/ \E w \in Wires : Accept(w) /\ Quiet
    \/ \E w \in Wires : Opened(w) /\ Quiet
    \/ \E w \in Wires : Closed(w) /\ Loss(w)
    \/ \E w \in Wires : onclose(w) /\ Loss(w)
    \/ \E w \in Wires, w2 \in Wires : Redial(w, w2) /\ Quiet
    \/ \E w \in Wires, u \in FormNames, p \in FormPasswords :
          SoloRoom /\ SubmitLogin(w, u, p) /\ Gesture
    \/ \E w \in Wires, u \in FormNames, p \in Passwords :
          SoloRoom /\ SubmitSignup(w, u, p) /\ Aside
    \/ \E w \in Wires, c \in AddInputs : SoloRoom /\ SubmitAddContact(w, c) /\ Aside
    \/ \E w \in Wires : SoloRoom /\ InputTyping(w) /\ Aside
    \/ \E w \in Wires, i \in 1..Cardinality(Usernames) :
          SoloRoom /\ OpenChat(w, i) /\ Gesture
    \/ \E w \in Wires, t \in MessageInputs :
          SoloRoom /\ CanSend /\ SubmitMessage(w, t) /\ Gesture
    \/ \E w \in Wires : BackToContacts(w) /\ Aside
    \/ \E w \in Wires : Logout(w) /\ Aside
    \/ \E w \in Wires : Receive(w) /\ Quiet
    \/ \E w \in Wires : Arrive(w) /\ Quiet

Alone == SystemInit /\ [][AloneNext]_vars

\* ------------------------------------- the pages and their sessions ----
\* The server with the page of one browser, through logins, logouts, losses of the
\* transport and the reconnections of connectWebSocket.  A script keeps its state
\* when it makes a new socket, so a reconnection moves it from the socket that was
\* lost to the one it makes next.

\* what the loss of a socket weighs in a run with reconnections
LossCost == 2

\* sockets the page makes during a run with reconnections: two when it is loaded and
\* one for each loss the weights allow
MaxDials == 5
Dials == 1..MaxDials

SessionInit ==
    /\ disk = StoredDb
    /\ db = loadDatabase(disk)
    /\ fs = "written"
    /\ clients = <<>>
    /\ conn = [w \in Dials |-> "none"]
    /\ nextId = 1
    /\ outbox = <<>>
    /\ req = [type |-> "start", ws |-> NoWs, payload |-> <<>>, before |-> <<>>,
             was |-> StoredDb]
    /\ page = [w \in Dials |-> NoPage]
    /\ events = [w \in Dials |-> <<>>]
    /\ sock = [w \in Dials |-> NoSock]
    /\ storage = [b \in Browsers |-> NoItems]
    /\ views = [w \in Dials |-> [k \in PayloadCodes |-> NoView]]
    /\ stage = 0
    /\ gestures = 0

\* an end of socket w closes: after the other end, or as the loss of the socket
Drop(w) == IF Lost(w) THEN Quiet ELSE Weigh(LossCost)

\* the names the user of a run with reconnections types: alice's, and a name that
\* is no account's
SessionNames == {Alice, ProtoName}

SessionNext ==
    \/ \E w \in Dials : Solo \notin UsedBrowsers /\ Load(w, w + 1, Solo) /\ Quiet
    \/ \E w \in Dials : Accept(w) /\ Quiet
    \/ \E w \in Dials : Opened(w) /\ Quiet
    \/ \E w \in Dials : Closed(w) /\ Drop(w)
    \/ \E w \in Dials : onclose(w) /\ Drop(w)
    \/ \E w \in Dials, w2 \in Dials : Redial(w, w2) /\ Quiet
    \/ \E w \in Dials, u \in SessionNames, p \in Passwords :
          SoloRoom /\ SubmitLogin(w, u, p) /\ Gesture
    \/ \E w \in Dials : SoloRoom /\ SubmitSignup(w, Alice, Pw2) /\ Aside
    \/ \E w \in Dials, c \in AddInputs : SoloRoom /\ SubmitAddContact(w, c) /\ Aside
    \/ \E w \in Dials : SoloRoom /\ InputTyping(w) /\ Aside
    \/ \E w \in Dials, i \in 1..Cardinality(Usernames) :
          SoloRoom /\ OpenChat(w, i) /\ Gesture
    \/ \E w \in Dials, t \in MessageInputs :
          SoloRoom /\ CanSend /\ SubmitMessage(w, t) /\ Gesture
    \/ \E w \in Dials : BackToContacts(w) /\ Aside
    \/ \E w \in Dials : Logout(w) /\ Aside
    \/ \E w \in Dials : Receive(w) /\ Quiet
    \/ \E w \in Dials : Arrive(w) /\ Quiet

\* the close of one end of socket w reaches the other end
CloseReaches(w) ==
    \/ conn[w] = "closed" /\ onclose(w) /\ Quiet
    \/ sock[w].end \in {"closed", "left"} /\ Closed(w) /\ Quiet

\* something is due in the event loop of the page or of the server: the timer of a
\* script has fired, a socket in the making is accepted or opens, the close of one
\* end of a socket raises the close event at the other, an envelope that waits in a
\* socket is handled
Due ==
    \E w \in Dials :
        \/ \E w2 \in Dials : Redial(w, w2) /\ Quiet
        \/ Accept(w) /\ Quiet
        \/ Opened(w) /\ Quiet
        \/ CloseReaches(w)
        \/ Receive(w) /\ Quiet

\* The event loops run what is due: they do not stop while something is.  What the
\* user does and the losses of a socket come to an end, by their weights.
Session ==
    /\ SessionInit
    /\ [][SessionNext]_vars
    /\ WF_vars(Due)

\* ------------------------------------------- the server and its views ----
\* The server alone, through signups, logins, reconnects, contact-adds and closes
\* with whatever payload a peer can send, and for every connection and code the
\* last contactList the server sent on that connection for that code.

RECURSIVE Record(_, _)
\* the views after the sends of out: a contactList is the view of the code that
\* sendContactListUpdate was called with, on the connection it was sent on
Record(v, out) ==
    IF out = <<>> THEN v
    ELSE LET e == Head(out)
         IN  Record(IF e.type = "contactList"
                    THEN [v EXCEPT ![e.to][e.viewer] = [seen |-> TRUE, list |-> e.payload]]
                    ELSE v,
                    Tail(out))

\* what a step of the server does to the views
Viewed ==
    /\ views' = Record(views, outbox')
    /\ UNCHANGED <<page, events, sock, storage, stage, gestures>>

PresenceNext ==
    \/ \E ws \in Conns : InOrder(ws) /\ Connect(ws) /\ Viewed
    \/ \E ws \in Conns : Close(ws) /\ Viewed
    \/ \E ws \in Conns, u \in ViewNames, p \in Passwords :
          handleSignup(ws, u, p) /\ Viewed
    \/ \E ws \in Conns, u \in ViewNames, p \in LoginPasswords :
          handleLogin(ws, u, p) /\ Viewed
    \/ \E ws \in Conns, u \in ViewNames, c \in PayloadCodes :
          handleReconnect(ws, u, c) /\ Viewed
    \/ \E ws \in Conns, a \in PayloadCodes, t \in PayloadCodes :
          handleAddContact(ws, a, t) /\ ContactCount(db') <= MaxContacts /\ Viewed

Presence == Init /\ [][PresenceNext]_vars

\* ------------------------------------------------------------ claims ----
\* what the last handler sent that matches type
Sent(type) == {i \in DOMAIN outbox : outbox[i].type = type}

\* the last request was a login with the username and the password of an account, or
\* a reconnect with the username and the code of an account
ValidCredentials ==
    /\ req.type \in {"login", "reconnect"}
    /\ req.payload.username \in OwnKeys(req.was)
    /\ IF req.type = "login"
       THEN req.was.users[req.payload.username].password = req.payload.password
       ELSE req.was.users[req.payload.username].userCode = req.payload.userCode

\* the last request was a login or reconnect that the handler accepted
BindAccepted ==
    /\ req.type \in {"login", "reconnect"}
    /\ Sent("loginSuccess") # {}

\* the code the handler of the last request, a login or reconnect, read from
\* db.users[username]
BoundCode == UserAt(req.was, req.payload.username).userCode

\* C1: the registry never holds two entries for one code, and every login or
\* reconnect with valid credentials is accepted and leaves the code bound to the
\* connection that sent it, whatever connection the code was bound to before.
C1_LastLoginWins ==
    /\ \A i, j \in DOMAIN clients : clients[i].code = clients[j].code => i = j
    /\ ValidCredentials => BindAccepted
    /\ BindAccepted =>
          /\ ClientsGet(clients, BoundCode) = req.ws
          /\ Sent("error") = {}
          /\ outbox[1] = Send(req.ws, "loginSuccess",
                              [username |-> req.payload.username, userCode |-> BoundCode])

\* C1 witness: an accepted login or reconnect for a code that another connection held
C1_Witness ==
    /\ ValidCredentials
    /\ BindAccepted
    /\ LET k == BoundCode
       IN  /\ ClientsGet(req.before, k) \notin {NoWs, req.ws}
           /\ conn[ClientsGet(req.before, k)] = "open"
           /\ ClientsGet(clients, k) = req.ws

\* C2: a close leaves alone every registry entry whose value is another connection,
\* and sends no onlineStatus about its code: a code leaves the registry on a close
\* only if its entry was the closing connection.
C2_StaleCloseKeepsBinding ==
    req.type = "close" =>
        \A e \in Range(req.before) :
            e.ws # req.ws =>
                /\ ClientsGet(clients, e.code) = e.ws
                /\ \A i \in Sent("onlineStatus") : outbox[i].payload.userCode # e.code

\* C2 witness: a connection without an entry closes while the only account's code is
\* bound to the other, open connection, and the entry is still there
C2_Witness ==
    /\ req.type = "close"
    /\ BoundCodes(req.before, req.ws) = {}
    /\ \E e \in Range(req.before) :
          /\ conn[e.ws] = "open"
          /\ ClientsGet(clients, e.code) = e.ws
          /\ FindUsername(db, e.code) # Undefined
    /\ outbox = <<>>

\* the contacts of code userCode, as listed in its account
ContactsOf(d, userCode) ==
    IF FindUsername(d, userCode) = Undefined THEN <<>>
    ELSE d.users[FindUsername(d, userCode)].contacts

\* the number of onlineStatus{userCode, isOnline} the last handler sent to ws
StatusPushes(ws, userCode, isOnline) ==
    Cardinality({i \in Sent("onlineStatus") :
                    /\ outbox[i].to = ws
                    /\ outbox[i].payload = [userCode |-> userCode, isOnline |-> isOnline]})

\* C3: after the close of a connection bound to a code, the code is not in the
\* registry, every contact of the code that is in the registry got exactly one
\* onlineStatus{code, false} on its connection, and nobody else got one.
C3_CloseBroadcast ==
    req.type = "close" =>
        \A k \in BoundCodes(req.before, req.ws) :
            /\ ~ClientsHas(clients, k)
            /\ \A w \in Conns :
                  StatusPushes(w, k, FALSE) =
                      IF \E c \in Range(ContactsOf(db, k)) : ClientsGet(clients, c) = w
                      THEN 1 ELSE 0

\* C4: no connection is the registry value of two codes.
C4_OneCodePerConnection ==
    \A i, j \in DOMAIN clients : clients[i].ws = clients[j].ws => i = j

\* C5: the sender stored in a message is the code bound to the connection that
\* submitted the sendMessage request.
C5_SenderIsBinding ==
    req.type = "sendMessage" =>
        \A i \in Sent("messageSent") :
            BoundCodes(req.before, req.ws) = {outbox[i].payload.sender}

\* the messages of database d that carry id messageId
MessagesWithId(d, messageId) ==
    {m \in UNION {Range(d.chats[k]) : k \in DOMAIN d.chats} : m.id = messageId}

\* C6: when a messageSent goes out the message is in the database db.json holds,
\* and when a readReceipt goes out the message is there with read = true.
C6_WriteThenAck ==
    /\ \A i \in Sent("messageSent") :
          outbox[i].payload \in MessagesWithId(loadDatabase(disk), outbox[i].payload.id)
    /\ \A i \in Sent("readReceipt") :
          \E m \in MessagesWithId(loadDatabase(disk), outbox[i].payload.messageId) : m.read

\* a handler that changes the database while the write of db.json fails sends no
\* signupSuccess, messageSent, newMessage or readReceipt, and an addContact no
\* contactList
C7_Step ==
    (fs # "written" /\ fs' = fs /\ db' # db) =>
        \A i \in DOMAIN outbox' :
            /\ outbox'[i].type
                   \notin {"signupSuccess", "messageSent", "newMessage", "readReceipt"}
            /\ req'.type = "addContact" => outbox'[i].type # "contactList"

\* C7: a handler whose write to db.json fails sends no success acknowledgement and
\* no push: in every step that changes the database while the file system fails the
\* write, no signupSuccess, messageSent, newMessage or readReceipt goes out, and an
\* addContact sends no contactList.
C7_NoSilentSuccess == [][C7_Step]_vars

\* the message with id messageId is stored with read = true
IsRead(d, messageId) == \E m \in MessagesWithId(d, messageId) : m.read

\* the readReceipts for messageId in a handler's output
Receipts(out, messageId) ==
    {i \in DOMAIN out : out[i].type = "readReceipt" /\ out[i].payload.messageId = messageId}

\* the step handled a readMessage for message m, sent by its receiver's client:
\* reader is m's receiver and messageSender is m's sender
ReadRequestFor(m) ==
    /\ req'.type = "readMessage"
    /\ req'.payload = [reader |-> m.receiver, messageId |-> m.id, messageSender |-> m.sender]

\* C8: for every message M, in every step: a read flag never goes back to false; a
\* readReceipt for M goes out only in a step that flips M's flag, and then only one;
\* a readMessage naming an M that is already read changes nothing and sends
\* nothing; and a readMessage for an unread M whose sender is in the registry flips
\* the flag and sends exactly one readReceipt, to the sender's connection.
C8_ReadOnceStep ==
    \A id \in MsgIds :
        /\ IsRead(db, id) => IsRead(db', id)
        /\ Cardinality(Receipts(outbox', id)) <= 1
        /\ Receipts(outbox', id) # {} => ~IsRead(db, id) /\ IsRead(db', id)
        /\ (req'.type = "readMessage" /\ req'.payload.messageId = id /\ IsRead(db, id))
              => db' = db /\ disk' = disk /\ outbox' = <<>>
        /\ \A m \in MessagesWithId(db, id) :
              (ReadRequestFor(m) /\ ~m.read /\ ClientsHas(clients, m.sender))
                  => /\ IsRead(db', id)
                     /\ outbox' = <<Send(ClientsGet(clients, m.sender), "readReceipt",
                                         [messageId |-> id, reader |-> m.receiver])>>

C8_ReadOnce == [][C8_ReadOnceStep]_vars

\* C8 witness: a readMessage from the receiver's client for a message that is read
\* and whose sender is in the registry has just been handled without a readReceipt:
\* the message was read before this request
C8_Witness ==
    /\ req.type = "readMessage"
    /\ outbox = <<>>
    /\ \E m \in MessagesWithId(db, req.payload.messageId) :
          /\ m.read
          /\ req.payload.reader = m.receiver
          /\ req.payload.messageSender = m.sender
          /\ m.sender # m.receiver
          /\ ClientsHas(clients, m.sender)
          /\ conn[ClientsGet(clients, m.sender)] = "open"

\* C9: a readReceipt for message M goes only to the connection bound to the
\* sender stored in M.
C9_ReceiptToOriginalSender ==
    \A i \in Sent("readReceipt") :
        \A m \in MessagesWithId(db, outbox[i].payload.messageId) :
            outbox[i].to = ClientsGet(clients, m.sender)

\* C10: the contact relation is symmetric and irreflexive, and no contact list
\* holds a code twice.
C10_ContactsSymmetric ==
    \A a \in OwnKeys(db) :
        LET A == db.users[a]
        IN  /\ A.userCode \notin Range(A.contacts)
            /\ \A i, j \in DOMAIN A.contacts : A.contacts[i] = A.contacts[j] => i = j
            /\ \A b \in OwnKeys(db) :
                  db.users[b].userCode \in Range(A.contacts)
                      <=> A.userCode \in Range(db.users[b].contacts)

\* the last request was an addContact between the codes of two accounts that the
\* handler accepted
AddContactAccepted ==
    /\ req.type = "addContact"
    /\ Sent("error") = {}
    /\ FindUsername(req.was, req.payload.adderUserCode) # Undefined
    /\ FindUsername(req.was, req.payload.targetUserCode) # Undefined

\* the last request was an addContact whose target is the adder's own code or the
\* code of no account
AddContactRejected ==
    /\ req.type = "addContact"
    /\ \/ req.payload.adderUserCode = req.payload.targetUserCode
       \/ FindUsername(req.was, req.payload.targetUserCode) = Undefined

\* the account with code `of` lists code `listed` in database d
Lists(d, of, listed) == listed \in Range(d.users[FindUsername(d, of)].contacts)

\* C11: after an accepted addContact(A, B) each of A and B lists the other, and if
\* each listed the other before the request, as they do after an addContact(A, B)
\* or addContact(B, A), the accounts and conversations are what they were.
C11_AddContactIdempotent ==
    AddContactAccepted =>
        LET A == req.payload.adderUserCode
            B == req.payload.targetUserCode
        IN  /\ Lists(db, A, B)
            /\ Lists(db, B, A)
            /\ (Lists(req.was, A, B) /\ Lists(req.was, B, A)) => db = req.was

\* C11 witness: an accepted addContact for a pair that was linked before it
C11_Witness ==
    /\ AddContactAccepted
    /\ Lists(req.was, req.payload.adderUserCode, req.payload.targetUserCode)
    /\ Lists(req.was, req.payload.targetUserCode, req.payload.adderUserCode)
    /\ db = req.was

\* C12: an addContact whose target is the adder's own code or no account's code
\* changes neither accounts, conversations nor registry, and sends one envelope, to
\* the caller, that is neither a contactList nor an onlineStatus.
C12_AddContactRejected ==
    AddContactRejected =>
        /\ db = req.was
        /\ clients = req.before
        /\ Len(outbox) = 1
        /\ outbox[1].to = req.ws
        /\ Sent("contactList") = {}
        /\ Sent("onlineStatus") = {}

\* C12 witness: a logged-in account asks to add its own code
C12_Witness ==
    /\ AddContactRejected
    /\ req.payload.adderUserCode = req.payload.targetUserCode
    /\ BoundCodes(clients, req.ws) = {req.payload.adderUserCode}
    /\ FindUsername(db, req.payload.adderUserCode) # Undefined

\* C13: a rejected addContact is answered with an envelope of type addContactError.
C13_AddContactErrorType ==
    AddContactRejected =>
        /\ outbox # <<>>
        /\ \A i \in DOMAIN outbox : outbox[i].type = "addContactError"

\* the codes of the accounts of database d
CodesOf(d) == {d.users[u].userCode : u \in OwnKeys(d)}

\* the last request was a signup that the handler accepted
SignupAccepted ==
    /\ req.type = "signup"
    /\ Sent("signupSuccess") # {}

\* C14: the codes of the accounts are pairwise distinct, and the code a signup
\* assigns is the code of no account that existed when the signup was handled.
C14_CodesDistinct ==
    /\ \A a, b \in OwnKeys(db) : db.users[a].userCode = db.users[b].userCode => a = b
    /\ SignupAccepted =>
          /\ db.users[req.payload.username] # NoUser
          /\ db.users[req.payload.username].userCode \notin CodesOf(req.was)

\* C14 witness: a signup created an account while another account existed
C14_Witness ==
    /\ SignupAccepted
    /\ OwnKeys(req.was) # {}
    /\ Cardinality(CodesOf(db)) = Cardinality(OwnKeys(req.was)) + 1

\* C15: a signup for a username that has an account changes nothing and sends one
\* error to the caller; and no handler removes an account or changes its code.
C15_DuplicateSignupRejected ==
    /\ (req.type = "signup" /\ req.payload.username \in OwnKeys(req.was)) =>
          /\ db = req.was
          /\ clients = req.before
          /\ Len(outbox) = 1
          /\ outbox[1].to = req.ws
          /\ outbox[1].type = "error"
    /\ \A u \in OwnKeys(req.was) :
          /\ u \in OwnKeys(db)
          /\ db.users[u].userCode = req.was.users[u].userCode

\* C15 witness: a signup for the username of an account that has a contact
C15_Witness ==
    /\ req.type = "signup"
    /\ req.payload.username \in OwnKeys(req.was)
    /\ req.was.users[req.payload.username].contacts # <<>>
    /\ db.users[req.payload.username] = req.was.users[req.payload.username]

\* C16: a signup for a free username creates the account with the given password, a
\* code and no contacts, leaves every other account, the conversations and the
\* registry as they were (the caller's connection is bound to what it was bound to),
\* and sends one envelope: signupSuccess with the code, to the caller.
C16_SignupDoesNotBind ==
    SignupAccepted =>
        LET username == req.payload.username
            account == db.users[username]
        IN  /\ account # NoUser
            /\ account.password = req.payload.password
            /\ account.contacts = <<>>
            /\ \A u \in Usernames \ {username} : db.users[u] = req.was.users[u]
            /\ db.chats = req.was.chats
            /\ clients = req.before
            /\ BoundCodes(clients, req.ws) = BoundCodes(req.before, req.ws)
            /\ ~ClientsHas(clients, account.userCode)
            /\ outbox = <<Send(req.ws, "signupSuccess", [userCode |-> account.userCode])>>

\* C16 witness: a connection bound to no code signed up while another connection
\* was in the registry
C16_Witness ==
    /\ SignupAccepted
    /\ BoundCodes(clients, req.ws) = {}
    /\ clients # <<>>
    /\ Sent("signupSuccess") # {}

\* the last request was a login or reconnect without the password, or the code, of
\* an account of that username
BindRejected ==
    /\ req.type \in {"login", "reconnect"}
    /\ ~ValidCredentials

\* C17: a login with an unknown username or another password than the account's,
\* and a reconnect with an unknown username or another code than the account's, send
\* one error, to the caller, and change neither registry, accounts nor conversations.
C17_BindRejected ==
    BindRejected =>
        /\ Len(outbox) = 1
        /\ outbox[1].to = req.ws
        /\ outbox[1].type = "error"
        /\ clients = req.before
        /\ db = req.was

\* C18: an accepted login or reconnect is that of an account; the account's code is
\* bound to the caller's connection, the first envelope sent is
\* loginSuccess{username, code} and the second is the contactList of the account,
\* both to the caller's connection, the list being the one the registry with the new
\* binding gives.
C18_GreetAfterBind ==
    BindAccepted =>
        LET username == req.payload.username
        IN  /\ username \in OwnKeys(db)
            /\ ClientsGet(clients, db.users[username].userCode) = req.ws
            /\ Len(outbox) >= 2
            /\ outbox[1] = Send(req.ws, "loginSuccess",
                                [username |-> username,
                                 userCode |-> db.users[username].userCode])
            /\ outbox[2] = SendList(req.ws, db.users[username].userCode,
                                    ContactDetails(clients, db, db.users[username].userCode,
                                                   db.users[username].contacts))

\* the contacts of code userCode that the registry holds
OnlineContacts(cl, d, userCode) ==
    {c \in Range(ContactsOf(d, userCode)) : ClientsHas(cl, c)}

\* C19: an onlineStatus about a code only ever goes to the registry connection of a
\* contact of that code; and after an accepted login or reconnect of code k every
\* contact of k that is in the registry has got, on its registry connection, an
\* onlineStatus{k, true} immediately followed by a contactList, with one onlineStatus
\* sent per such contact and none else.
C19_BindBroadcast ==
    /\ \A i \in Sent("onlineStatus") :
          \E c \in Range(ContactsOf(db, outbox[i].payload.userCode)) :
              ClientsGet(clients, c) = outbox[i].to
    /\ BindAccepted =>
          LET k == BoundCode
          IN  /\ \A c \in OnlineContacts(clients, db, k) :
                    \E i \in Sent("onlineStatus") :
                        /\ outbox[i] = Send(ClientsGet(clients, c), "onlineStatus",
                                            [userCode |-> k, isOnline |-> TRUE])
                        /\ i + 1 \in Sent("contactList")
                        /\ outbox[i + 1].to = ClientsGet(clients, c)
              /\ \A i \in Sent("onlineStatus") :
                    outbox[i].payload = [userCode |-> k, isOnline |-> TRUE]
              /\ Cardinality(Sent("onlineStatus"))
                     = Cardinality(OnlineContacts(clients, db, k))

\* every message of every conversation of database d
AllMessages(d) == UNION {Range(d.chats[k]) : k \in DOMAIN d.chats}

\* the messages from code C to code V that V has not read
UnreadFrom(d, V, C) ==
    {m \in AllMessages(d) : m.receiver = V /\ m.sender = C /\ ~m.read}

\* the contact list of viewer V: one entry per contact, in the order of the account
ExpectedContactList(cl, d, V) ==
    LET contacts == ContactsOf(d, V)
    IN  [j \in 1..Len(contacts) |->
            [username |-> FindUsername(d, contacts[j]),
             userCode |-> contacts[j],
             isOnline |-> \E e \in DOMAIN cl : cl[e].code = contacts[j],
             unreadCount |-> Cardinality(UnreadFrom(d, V, contacts[j]))]]

\* C20: every contactList sent goes to the registry connection of an account V and
\* lists V's contacts, each with isOnline = the contact's code is in the registry and
\* unreadCount = the number of unread messages from the contact to V; and a
\* sendMessage from C to V adds exactly one to the number of unread messages from C
\* to V.
C20_ContactListSnapshot ==
    /\ \A i \in Sent("contactList") :
          \E V \in Codes :
              /\ FindUsername(db, V) # Undefined
              /\ ClientsGet(clients, V) = outbox[i].to
              /\ outbox[i].payload = ExpectedContactList(clients, db, V)
    /\ req.type = "sendMessage" =>
          Cardinality(UnreadFrom(db, req.payload.receiver, req.payload.sender))
              = Cardinality(UnreadFrom(req.was, req.payload.receiver, req.payload.sender)) + 1

\* the message the last request, a sendMessage, put in the log: the last entry of the
\* conversation of the payload's sender and receiver
Appended ==
    LET log == db.chats[getChatKey(req.payload.sender, req.payload.receiver)]
    IN  log[Len(log)]

\* C23: after a sendMessage the log of the sender and receiver ends with a message
\* that has a new id, the payload's sender, receiver and text, and read = false;
\* exactly one messageSent was sent, to the requesting connection, carrying that
\* message; every newMessage sent carries that message; and one was sent if the
\* receiver's code was in the registry.
C23_ConfirmEverySend ==
    req.type = "sendMessage" =>
        /\ getChatKey(req.payload.sender, req.payload.receiver) \in DOMAIN db.chats
        /\ Appended.id \notin {m.id : m \in AllMessages(req.was)}
        /\ Appended.sender = req.payload.sender
        /\ Appended.receiver = req.payload.receiver
        /\ Appended.text = req.payload.text
        /\ ~Appended.read
        /\ Cardinality(Sent("messageSent")) = 1
        /\ \A i \in Sent("messageSent") : outbox[i] = Send(req.ws, "messageSent", Appended)
        /\ \A i \in Sent("newMessage") : outbox[i].payload = Appended
        /\ ClientsHas(req.before, req.payload.receiver) => Sent("newMessage") # {}

\* C23 witness: a sendMessage whose message was pushed to another connection and
\* confirmed to the requesting one
C23_Witness ==
    /\ req.type = "sendMessage"
    /\ Len(outbox) = 2
    /\ outbox[1].type = "newMessage"
    /\ outbox[1].to # req.ws
    /\ outbox[2] = Send(req.ws, "messageSent", outbox[1].payload)

\* C24: a newMessage is sent only by the sendMessage that created its message, only
\* if the receiver's code was in the registry, and to the connection the registry
\* gives for it; no other handler, a login or reconnect of the receiver included,
\* sends one, and a sendMessage to a code that is not in the registry sends none.
C24_NoLaterPush ==
    /\ \A i \in Sent("newMessage") :
          /\ req.type = "sendMessage"
          /\ outbox[i].payload.id \notin {m.id : m \in AllMessages(req.was)}
          /\ outbox[i].payload \in AllMessages(db)
          /\ ClientsHas(req.before, outbox[i].payload.receiver)
          /\ outbox[i].to = ClientsGet(req.before, outbox[i].payload.receiver)
    /\ (req.type = "sendMessage" /\ ~ClientsHas(req.before, req.payload.receiver))
          => Sent("newMessage") = {}

\* C24 witness: an account logs in while the log holds a message for it that it has
\* not read and that was not pushed when it was sent; the login pushes no newMessage
\* and its contactList reports the message
C24_Witness ==
    /\ BindAccepted
    /\ Sent("newMessage") = {}
    /\ \E m \in AllMessages(db) :
          /\ m.receiver = BoundCode
          /\ m.sender # m.receiver
          /\ ~m.read
          /\ \E j \in DOMAIN outbox[2].payload :
                /\ outbox[2].payload[j].userCode = m.sender
                /\ outbox[2].payload[j].unreadCount = 1

\* C27: a chatHistory that carries messages goes to a connection bound to the
\* sender or the receiver of each of them.
C27_HistoryOnlyToParticipants ==
    \A i \in Sent("chatHistory") :
        \A m \in Range(outbox[i].payload.messages) :
            BoundCodes(clients, outbox[i].to) \cap {m.sender, m.receiver} # {}

\* C28: a getChat sends one envelope, a chatHistory to the requesting connection with
\* the whole log of the two codes of the payload (empty if there is none), the
\* target code and whether the target code is in the registry, and changes neither
\* accounts, conversations nor registry.
C28_GetChatReadsOnly ==
    req.type = "getChat" =>
        LET key == getChatKey(req.payload.currentUserCode, req.payload.targetUserCode)
        IN  /\ outbox = <<Send(req.ws, "chatHistory",
                               [messages |-> IF key \in DOMAIN req.was.chats
                                             THEN req.was.chats[key] ELSE <<>>,
                                withUser |-> req.payload.targetUserCode,
                                isOnline |-> \E e \in DOMAIN clients :
                                                clients[e].code = req.payload.targetUserCode])>>
            /\ db = req.was
            /\ clients = req.before

\* C28 witness: a getChat for a conversation that holds a message that has been
\* read, whose target is in the registry
C28_Witness ==
    /\ req.type = "getChat"
    /\ Len(outbox) = 1
    /\ outbox[1].payload.isOnline
    /\ \E m \in Range(outbox[1].payload.messages) : m.read

\* C29: a typing request changes neither accounts, conversations nor registry; it
\* sends one typing{typer} to the registry connection of the receiver's code if there
\* is one and nothing otherwise; and no other handler sends a typing.
C29_TypingRelayedOrDropped ==
    /\ req.type = "typing" =>
          /\ db = req.was
          /\ clients = req.before
          /\ outbox = IF ClientsHas(clients, req.payload.receiver)
                      THEN <<Send(ClientsGet(clients, req.payload.receiver), "typing",
                                  [typer |-> req.payload.typer])>>
                      ELSE <<>>
    /\ Sent("typing") # {} => req.type = "typing"

\* C29 witness: a typing for a receiver that is not in the registry, from a
\* connection bound to the typer, was dropped
C29_Witness ==
    /\ req.type = "typing"
    /\ ~ClientsHas(clients, req.payload.receiver)
    /\ FindUsername(db, req.payload.receiver) # Undefined
    /\ BoundCodes(clients, req.ws) = {req.payload.typer}
    /\ outbox = <<>>

\* the unread count the page p shows for contact C
Badge(p, C) == p.contacts[FindContact(p.contacts, C)].unreadCount

\* with this step the page at w takes in the oldest envelope on its way to it, and
\* the envelope is of this type
ArrivalOf(w, type) ==
    /\ sock[w].end = "open"
    /\ sock[w].down # <<>>
    /\ Head(sock[w].down).type = type
    /\ sock'[w].down = Tail(sock[w].down)
    /\ sock'[w].end = "open"

\* C21, one step: when a newMessage from contact C arrives at the page of its
\* receiver while the chat with C is not open there, the count the page shows for C
\* goes up by one, as the number of unread messages from C does on the server.
C21_ArrivalStep ==
    \A w \in DOMAIN sock :
        LET m == Head(sock[w].down).payload
        IN  (/\ ArrivalOf(w, "newMessage")
             /\ page[w].currentUser # NullObject
             /\ page[w].currentUser.userCode = m.receiver
             /\ ~(page[w].activeChat # NullObject /\ page[w].activeChat.userCode = m.sender)
             /\ FindContact(page[w].contacts, m.sender) # 0)
                => Badge(page'[w], m.sender) = Badge(page[w], m.sender) + 1

\* C21: the count a page shows for a contact follows the arrivals: each message
\* that arrives from the contact while the chat is not open adds one to it.
C21_BadgeCountsArrivals == [][C21_ArrivalStep]_vars

\* the number of messages of all conversations of database d
TotalMessages(d) == Cardinality(AllMessages(d))

\* C25: every handler leaves every conversation log with its old entries at their
\* old places, each unchanged or changed only in its read flag, from false to true;
\* a sendMessage makes the log of its two codes one entry longer and no other log
\* longer; no other handler makes any log longer.
C25_LogsOnlyGrow ==
    /\ \A k \in DOMAIN req.was.chats :
          /\ k \in DOMAIN db.chats
          /\ Len(req.was.chats[k]) <= Len(db.chats[k])
          /\ \A i \in DOMAIN req.was.chats[k] :
                \/ db.chats[k][i] = req.was.chats[k][i]
                \/ /\ ~req.was.chats[k][i].read
                   /\ db.chats[k][i] = [req.was.chats[k][i] EXCEPT !.read = TRUE]
    /\ \A k \in DOMAIN db.chats :
          Len(db.chats[k]) =
              Len(ChatOf(req.was, k))
              + (IF req.type = "sendMessage"
                    /\ k = getChatKey(req.payload.sender, req.payload.receiver)
                 THEN 1 ELSE 0)
    /\ \A k \in DOMAIN db.chats :
          \A i, j \in DOMAIN db.chats[k] : db.chats[k][i].id = db.chats[k][j].id => i = j

\* C25 witness: a sendMessage from one connection has put a second entry at the
\* end of a log while a request of another connection waits in its socket
C25_Witness ==
    /\ req.type = "sendMessage"
    /\ \E k \in DOMAIN db.chats :
          /\ Len(db.chats[k]) = 2
          /\ req.was.chats[k] = <<db.chats[k][1]>>
    /\ \E v \in DOMAIN sock : v # req.ws /\ sock[v].up # <<>>

\* the place of the message with id messageId in the log it is in, 0 for none
PlaceInLog(d, m) == FindMessage(ChatOf(d, getChatKey(m.sender, m.receiver)), m.id)

\* C26: the messages a connection got as newMessage or messageSent come, within one
\* conversation, in the order of their places in the log, and every chatHistory, as
\* the server sends it and as it is on its way to a page, lists the messages at
\* their places in the log.
C26_ObservedInLogOrder ==
    /\ \A w \in DOMAIN sock :
          \A i, j \in DOMAIN events[w] :
              (/\ i < j
               /\ getChatKey(events[w][i].sender, events[w][i].receiver)
                      = getChatKey(events[w][j].sender, events[w][j].receiver))
                  => /\ PlaceInLog(db, events[w][i]) # 0
                     /\ PlaceInLog(db, events[w][i]) <= PlaceInLog(db, events[w][j])
    /\ \A i \in Sent("chatHistory") :
          \A j \in DOMAIN outbox[i].payload.messages :
              PlaceInLog(db, outbox[i].payload.messages[j]) = j
    /\ \A w \in DOMAIN sock :
          \A n \in DOMAIN sock[w].down :
              sock[w].down[n].type = "chatHistory" =>
                  \A j \in DOMAIN sock[w].down[n].payload.messages :
                      PlaceInLog(db, sock[w].down[n].payload.messages[j]) = j

\* C26 witness: a chatHistory with the first message of a conversation and the
\* newMessage of the second are on their way to one page, in that order, while the
\* messageSent of both are on their way to the other
C26_Witness ==
    \E w, v \in DOMAIN sock :
        /\ w # v
        /\ Len(sock[w].down) = 2
        /\ sock[w].down[1].type = "chatHistory"
        /\ Len(sock[w].down[1].payload.messages) = 1
        /\ sock[w].down[2].type = "newMessage"
        /\ PlaceInLog(db, sock[w].down[2].payload) = 2
        /\ Len(sock[v].down) = 2
        /\ sock[v].down[1].type = "messageSent"
        /\ sock[v].down[2] = Envelope("messageSent", sock[w].down[2].payload)

\* C30: an envelope that cannot be parsed, an envelope of a type without a handler
\* of its own and a sendMessage without a text change neither accounts,
\* conversations nor registry and leave the connection open.
C30_MalformedChangesNothing ==
    (\/ req.type \in {"badEnvelope", "unknownType"} \cup InheritedTypes
     \/ (req.type = "sendMessage" /\ req.payload.text = Undefined))
        => /\ db = req.was
           /\ clients = req.before
           /\ conn[req.ws] = "open"

\* C22: in the scenario, once both have signed up their codes differ; alice's login
\* yields an empty contactList; after alice adds bob's code her contactList and the
\* list of bob's account each show the other with unreadCount 0; her Hi is
\* confirmed to her and pushed to nobody, bob being in no registry entry; bob's login
\* yields a contactList with unreadCount 1 for alice; his getChat returns the one
\* message, unread; and his readMessage sends alice's connection a readReceipt with
\* the message's id and leaves the stored message read.
C22_ScenarioOutcomes ==
    /\ stage >= 4 =>
          /\ db.users[Alice] # NoUser
          /\ db.users[Bob] # NoUser
          /\ CodeOf(Alice) # CodeOf(Bob)
    /\ (stage = 5 /\ req.type = "login") =>
          outbox = <<Send(1, "loginSuccess",
                          [username |-> Alice, userCode |-> CodeOf(Alice)]),
                     SendList(1, CodeOf(Alice), <<>>)>>
    /\ (stage = 6 /\ req.type = "addContact") =>
          /\ outbox = <<SendList(1, CodeOf(Alice),
                                 <<[username |-> Bob, userCode |-> CodeOf(Bob),
                                    isOnline |-> FALSE, unreadCount |-> 0]>>)>>
          /\ ExpectedContactList(clients, db, CodeOf(Bob))
                 = <<[username |-> Alice, userCode |-> CodeOf(Alice),
                      isOnline |-> TRUE, unreadCount |-> 0]>>
    /\ (stage = 7 /\ req.type = "sendMessage") =>
          /\ ~ClientsHas(clients, CodeOf(Bob))
          /\ Len(outbox) = 1
          /\ outbox[1].to = 1
          /\ outbox[1].type = "messageSent"
          /\ outbox[1].payload.text = Hi
    /\ (stage = 8 /\ req.type = "login") =>
          /\ Len(outbox) >= 2
          /\ outbox[2] = SendList(2, CodeOf(Bob),
                                  <<[username |-> Alice, userCode |-> CodeOf(Alice),
                                     isOnline |-> TRUE, unreadCount |-> 1]>>)
    /\ (stage = 9 /\ req.type = "getChat") =>
          /\ Len(outbox) = 1
          /\ outbox[1].to = 2
          /\ outbox[1].type = "chatHistory"
          /\ Len(outbox[1].payload.messages) = 1
          /\ outbox[1].payload.messages[1].text = Hi
          /\ outbox[1].payload.messages[1].sender = CodeOf(Alice)
          /\ ~outbox[1].payload.messages[1].read
    /\ (stage = 10 /\ req.type = "readMessage") =>
          /\ outbox = <<Send(1, "readReceipt",
                             [messageId |-> req.payload.messageId,
                              reader |-> CodeOf(Bob)])>>
          /\ \A m \in AllMessages(db) : m.id = req.payload.messageId /\ m.read
          /\ AllMessages(db) # {}

\* C22 witness: the last step of the scenario has been taken: bob's readMessage
\* has sent a readReceipt
C22_Witness ==
    /\ stage = 10
    /\ req.type = "readMessage"
    /\ Sent("readReceipt") = {1}

\* C31: a sendMessage whose text is empty is rejected: it appends no message to any
\* conversation and sends no newMessage and no messageSent.
C31_EmptyTextRejected ==
    (req.type = "sendMessage" /\ req.payload.text = <<>>) =>
        /\ db = req.was
        /\ Sent("newMessage") = {}
        /\ Sent("messageSent") = {}

\* the messages whose read flag the last request set: unread before it, read now
Flipped ==
    {m \in AllMessages(db) :
        /\ m.read
        /\ \E o \in AllMessages(req.was) : o.id = m.id /\ ~o.read}

\* C35: a read flag is set only by a readMessage from the connection the message's
\* receiver was bound to when the request arrived.
C35_OnlyReceiverReads ==
    \A m \in Flipped :
        /\ req.type = "readMessage"
        /\ ClientsGet(req.before, m.receiver) = req.ws

\* the pairs <<a, c>> such that the last request put code c in the contact list of
\* the account with code a
NewEdges ==
    {e \in Codes \X Codes :
        /\ FindUsername(db, e[1]) # Undefined
        /\ Lists(db, e[1], e[2])
        /\ ~(FindUsername(req.was, e[1]) # Undefined /\ Lists(req.was, e[1], e[2]))}

\* C36: a contact edge appears only through an addContact, and then only between the
\* account bound to the requesting connection and the target of the request.
C36_OnlyOwnEdges ==
    \A e \in NewEdges :
        /\ req.type = "addContact"
        /\ LET own == BoundCodes(req.before, req.ws)
           IN  \/ e[1] \in own /\ e[2] = req.payload.targetUserCode
               \/ e[2] \in own /\ e[1] = req.payload.targetUserCode

\* the last step ran a handler that the code lets change accounts or conversations
Mutating == req.type \in {"signup", "addContact", "sendMessage", "readMessage"}

\* C38: while the durable writes succeed, the file holds the accounts and
\* conversations of the memory after every handler, and only signup, addContact,
\* sendMessage and readMessage change them.
C38_DiskFollowsMemory ==
    /\ fs = "written" => loadDatabase(disk) = db
    /\ ~Mutating => db = req.was

\* the longest code the order of getChatKey's sort is checked for
MaxKeyLen == 2

\* the strings of at most n characters
RECURSIVE StringsUpTo(_)
StringsUpTo(n) ==
    IF n = 0 THEN {<<>>}
    ELSE LET shorter == StringsUpTo(n - 1)
         IN  shorter \cup {<<d>> \o s : d \in 1..MaxDigit, s \in {t \in shorter : Len(t) = n - 1}}

\* the codes getChatKey is compared on, which are what a payload can carry for a
\* code: among them are equal codes, codes that differ in their first or in a later
\* character, a code and its prefix, the empty code, undefined and null, and the
\* strings "undefined" and "null"
KeyCodes == StringsUpTo(MaxKeyLen) \cup {Undefined, Null, UndefinedName, NullName}

\* C34: getChatKey(A, B) = getChatKey(B, A) for all codes A and B; every message is
\* in the log its sender and its receiver address, in either order; and in the
\* scenario bob's login counts, his getChat returns and his readMessage marks the
\* message alice's sendMessage appended.
C34_ChatKeySymmetric ==
    /\ \A A \in KeyCodes, B \in KeyCodes : getChatKey(A, B) = getChatKey(B, A)
    /\ \A k \in DOMAIN db.chats : \A m \in Range(db.chats[k]) :
          /\ k = getChatKey(m.sender, m.receiver)
          /\ k = getChatKey(m.receiver, m.sender)
    /\ (stage = 8 /\ req.type = "login") =>
          /\ Len(outbox) >= 2
          /\ outbox[2].payload[1].unreadCount = 1
    /\ (stage = 9 /\ req.type = "getChat") =>
          /\ Len(outbox) = 1
          /\ outbox[1].payload.messages
                 = db.chats[getChatKey(CodeOf(Alice), CodeOf(Bob))]
          /\ Len(outbox[1].payload.messages) = 1
    /\ (stage = 10 /\ req.type = "readMessage") =>
          /\ Flipped # {}
          /\ \A m \in Range(db.chats[getChatKey(CodeOf(Alice), CodeOf(Bob))]) : m.read

\* C32: after the user of a page has logged out, the code the page was logged in
\* with is not in the registry: once nothing is on its way in the socket of a page
\* that has nobody logged in, the page's connection is bound to no code.
C32_LogoutUnbinds ==
    \A w \in DOMAIN conn :
        (/\ conn[w] = "open"
         /\ sock[w].end = "open"
         /\ sock[w].up = <<>>
         /\ sock[w].down = <<>>
         /\ page[w].currentUser = NullObject)
            => BoundCodes(clients, w) = {}

\* with this step the socket w of a page opens
OpenedStep(w) ==
    /\ sock[w].end = "connecting"
    /\ sock'[w].end = "open"

\* with this step the server handles the reconnect that is the oldest envelope in
\* socket w
ReconnectStep(w) ==
    /\ sock[w].up # <<>>
    /\ Head(sock[w].up).type = "reconnect"
    /\ sock'[w].up = Tail(sock[w].up)
    /\ conn'[w] = "open"

\* the account of username has the code userCode
HasCode(d, username, userCode) ==
    /\ UserAt(d, username) # NoUser
    /\ UserAt(d, username).userCode = userCode

\* with this step the timer of the script at w fires: the script makes a new socket
RedialStep(w) ==
    /\ sock[w].end = "closed"
    /\ sock'[w].end = "left"

\* the sessions a page can store in a run with reconnections: those of the accounts
\* whose name the user types
StoredSessions ==
    {[username |-> u, userCode |-> StoredDb.users[u].userCode] :
        u \in {n \in SessionNames : StoredDb.users[n] # NoUser}}

\* a reconnect with session is on its way to the server in socket w, and the account
\* of its username has its code
ReconnectWaits(w, session) ==
    /\ HasCode(db, session.username, session.userCode)
    /\ \E n \in DOMAIN sock[w].up : sock[w].up[n] = Envelope("reconnect", session)

\* every socket a script has is open at both ends, no reconnect waits in it, and
\* the server has closed the sockets the scripts have left
Settled ==
    \A w \in Dials :
        /\ sock[w].end \notin {"closed", "connecting"}
        /\ sock[w].end = "open" =>
              /\ conn[w] = "open"
              /\ \A n \in DOMAIN sock[w].up : sock[w].up[n].type # "reconnect"
        /\ sock[w].end = "left" => conn[w] # "open"

\* C33: a script whose socket has closed eventually makes a new one, which
\* eventually opens at both ends, the losses coming to an end; when it opens in a
\* browser that stores a session the second script sends a reconnect with the stored
\* username and code; the server eventually handles that reconnect, unless the new
\* connection is lost before, and then, the account having that code, the code is
\* bound to the new connection, which is sent loginSuccess; the loginSuccess that
\* arrives logs the page in with that code.
C33_ReconnectsAfterLoss ==
    /\ [][\A w \in Dials :
             /\ RedialStep(w) =>
                   \E w2 \in Dials :
                       /\ sock[w2].end = "none"
                       /\ sock'[w2].end = "connecting"
                       /\ page'[w2] = page[w]
             /\ (OpenedStep(w) /\ conn[w] = "open"
                    /\ page[w].script = 2
                    /\ storage[page[w].browser].session # NullObject) =>
                   sock'[w].up = <<Envelope("reconnect", storage[page[w].browser].session)>>
             /\ ReconnectStep(w) =>
                   LET session == Head(sock[w].up).payload
                   IN  /\ req'.type = "reconnect"
                       /\ req'.ws = w
                       /\ req'.payload = session
                       /\ HasCode(db, session.username, session.userCode) =>
                             /\ ClientsGet(clients', session.userCode) = w
                             /\ outbox'[1] = Send(w, "loginSuccess", session)
             /\ (ArrivalOf(w, "loginSuccess") /\ page[w].script = 2) =>
                   /\ page'[w].currentUser = Head(sock[w].down).payload
                   /\ storage'[page[w].browser].session = Head(sock[w].down).payload]_vars
    /\ \A w \in Dials : (sock[w].end = "closed") ~> (sock[w].end = "left")
    /\ \A w \in Dials : \A session \in StoredSessions :
          ReconnectWaits(w, session)
              ~> (ClientsGet(clients, session.userCode) = w \/ Lost(w))
    /\ []<>Settled

\* C33 witness: the reconnect of a page that has made a new socket after a loss has
\* been handled and its code is bound to the new connection, the page having the
\* user of the stored session
C33_Witness ==
    \E w \in Dials :
        /\ req.type = "reconnect"
        /\ req.ws = w
        /\ conn[w] = "open"
        /\ sock[w].end = "open"
        /\ ClientsGet(clients, req.payload.userCode) = w
        /\ page[w].currentUser = req.payload
        /\ storage[page[w].browser].session = req.payload
        /\ \E w0 \in Dials : w0 < w /\ sock[w0].end = "left"

\* the online flags the last contactList sent on connection c for code V gives
\* for code C
FlagsFor(c, V, C) ==
    {views[c][V].list[i].isOnline :
        i \in {j \in DOMAIN views[c][V].list : views[c][V].list[j].userCode = C}}

====
